---- MODULE Spec2Model ----
(* Name resolution (naming/translate.rs) and type checking (typing/translate.rs) of the  *)
(* Move compiler: the scope context of one function, type-argument arity checking and    *)
(* macro expansion bookkeeping.                                                          *)
EXTENDS Integers, Sequences, FiniteSets, TLC

(* ------------------------------------------------------------------------------------ *)
(* Bounds                                                                                *)
(* ------------------------------------------------------------------------------------ *)
MaxDepth == 2
MaxScopes == 1
MaxDecls == 2
MaxBlocks == 4
MaxDiags == 1
MaxArity == 2
MaxTyArgs == 2

(* Option<T>: None is the empty sequence, Some(v) the one-element sequence. *)
None == << >>
Some(v) == << v >>

Names == {"x", "y"}
Labels == {"a", "b"}
ParamLists == { << >>, <<"x">>, <<"x", "x">>, <<"x", "y">> }
BindLists == { <<"x">>, <<"y">> }
LambdaBindLists == { << >>, << <<"x">> >> }

VARIABLES
    ctl,          \* the open constructs of the traversal, innermost last
    context,      \* naming Context: local_scopes, local_count, used_locals, nominal_blocks, nominal_block_id
    diags,        \* env diagnostics, in the order they were added
    decl_log,     \* every declare_local call of the current function, in call order
    last,         \* the operation performed by the last step and what it returned
    tcontext,     \* typing Context: macro_expansion
    ast           \* the declaration or expression handed to a pass, None while it is traversed step by step

vars == << ctl, context, diags, decl_log, last, tcontext, ast >>

(* ------------------------------------------------------------------------------------ *)
(* Maps (BTreeMap) as functions on a finite domain                                      *)
(* ------------------------------------------------------------------------------------ *)
EmptyMap == [n \in {} |-> 0]
MapInsert(m, k, v) == [n \in (DOMAIN m) \cup {k} |-> IF n = k THEN v ELSE m[n]]
MapGet(m, k) == IF k \in DOMAIN m THEN Some(m[k]) ELSE None

Last(s) == s[Len(s)]
Front(s) == SubSeq(s, 1, Len(s) - 1)

Diag(code, msg) == [code |-> code, msg |-> msg]

(* subst: the bindings of the type variables and the variables that stand for a number *)
SubstEmpty == [ tvars |-> EmptyMap, num_vars |-> {} ]

TContextNew == [ macro_expansion |-> << >>, subst |-> SubstEmpty ]

(* ------------------------------------------------------------------------------------ *)
(* Context: local scopes                                                                 *)
(* ------------------------------------------------------------------------------------ *)
ContextNew ==
    [ local_scopes |-> << >>,
      local_count |-> EmptyMap,
      used_locals |-> {},
      nominal_blocks |-> << >>,
      nominal_block_id |-> 0,
      scoped_types |-> EmptyMap,
      unscoped_types |-> EmptyMap,
      used_fun_tparams |-> {},
      translating_fun |-> FALSE ]

new_local_scope(c) ==
    [c EXCEPT !.local_scopes = Append(@, Last(@))]

close_local_scope_shared(c) ==
    [c EXCEPT !.local_scopes =
        IF Len(@) >= 2 THEN Append(SubSeq(@, 1, Len(@) - 2), Last(@)) ELSE Front(@)]

close_local_scope(c) ==
    [c EXCEPT !.local_scopes = Front(@)]

declare_id_without_count(local_count, is_parameter, name) ==
    IF is_parameter THEN 0 ELSE 1

declare_id_insert_then_modify(local_count, is_parameter, name) ==
    (IF name \in DOMAIN local_count THEN local_count[name] ELSE (IF is_parameter THEN 0 ELSE 1)) + 1

(* local_count.entry(name).and_modify(|c| *c += 1).or_insert(default) *)
declare_id(local_count, is_parameter, name) ==
    IF name \in DOMAIN local_count
    THEN local_count[name] + 1
    ELSE (IF is_parameter THEN 0 ELSE 1)

Var(name, id) == [name |-> name, id |-> id, color |-> 0]

declare_local(c, is_parameter, name) ==
    LET id == declare_id(c.local_count, is_parameter, name)
    IN  [ ctx |-> [c EXCEPT !.local_count = MapInsert(@, name, id),
                            !.local_scopes[Len(c.local_scopes)] = MapInsert(@, name, id)],
          var |-> Var(name, id) ]

resolve_local_outermost(c, name) ==
    LET id_opt == MapGet(c.local_scopes[1], name)
    IN  IF id_opt = None
        THEN [ctx |-> c, ret |-> None,
              diag |-> << Diag("NameResolution::UnboundVariable", "Unbound variable") >>]
        ELSE [ctx |-> [c EXCEPT !.used_locals = @ \cup {Var(name, id_opt[1])}],
              ret |-> Some(Var(name, id_opt[1])), diag |-> << >>]

resolve_local(c, name) ==
    LET id_opt == MapGet(Last(c.local_scopes), name)
    IN  IF id_opt = None
        THEN [ctx |-> c, ret |-> None,
              diag |-> << Diag("NameResolution::UnboundVariable", "Unbound variable") >>]
        ELSE [ctx |-> [c EXCEPT !.used_locals = @ \cup {Var(name, id_opt[1])}],
              ret |-> Some(Var(name, id_opt[1])), diag |-> << >>]

(* lvalue_list over plain variables (case Bind) and the parameter loop of               *)
(* function_signature: a name seen before in the same list is reported, and declared    *)
(* all the same.                                                                        *)
RECURSIVE declare_list(_, _, _, _, _)
declare_list(c, is_parameter, names, seen, msg) ==
    IF names = << >>
    THEN [ctx |-> c, vars |-> << >>, diag |-> << >>]
    ELSE LET n == Head(names)
             dup == IF n \in seen THEN << Diag("Declarations::DuplicateItem", msg) >> ELSE << >>
             d == declare_local(c, is_parameter, n)
             rest == declare_list(d.ctx, is_parameter, Tail(names), seen \cup {n}, msg)
         IN  [ctx |-> rest.ctx, vars |-> << d.var >> \o rest.vars, diag |-> dup \o rest.diag]

bind_list(c, names) ==
    declare_list(c, FALSE, names, {}, "Duplicate declaration for local in a given 'let'")

function_signature(c, params) ==
    declare_list(c, TRUE, params, {}, "Duplicate parameter with name")

(* ------------------------------------------------------------------------------------ *)
(* Context: nominal blocks                                                               *)
(* ------------------------------------------------------------------------------------ *)
LoopTypes == {"While", "Loop"}
LoopOf(loop_type) == << "Loop", loop_type >>
NominalBlockTypes ==
    { LoopOf(lt) : lt \in LoopTypes } \cup { <<"Block">>, <<"LambdaReturn">>, <<"LambdaLoopCapture">> }
NominalBlockUsages == {"Return", "Break", "Continue"}
IsLoop(name_type) == name_type[1] = "Loop"

IMPLICIT_LABEL_SYMBOL == "%implicit"

block_label(name, id) ==
    [ label |-> Var(IF name = None THEN IMPLICIT_LABEL_SYMBOL ELSE name[1], id),
      is_implicit |-> (name = None) ]

enter_nominal_block(c, name, name_type) ==
    [c EXCEPT !.nominal_block_id = @ + 1,
              !.nominal_blocks =
                  Append(@, [name |-> name,
                             label |-> block_label(name, c.nominal_block_id),
                             name_type |-> name_type])]

exit_nominal_block(c) ==
    [c EXCEPT !.nominal_blocks = Front(@)]

is_acceptable_usage(name_type, usage) ==
    \/ IsLoop(name_type) /\ usage \in {"Break", "Continue"}
    \/ name_type = <<"Block">> /\ usage = "Return"
    \/ name_type = <<"LambdaReturn">> /\ usage = "Return"
    \/ name_type = <<"LambdaLoopCapture">> /\ usage \in {"Break", "Continue"}

(* iter().rev().find(p): the index of the innermost frame satisfying p, 0 when none *)
RFind(s, p(_)) ==
    LET hits == { i \in 1..Len(s) : p(s[i]) }
    IN  IF hits = {} THEN 0 ELSE CHOOSE i \in hits : \A j \in hits : j <= i

IsLoopOrCapture(b) == IsLoop(b.name_type) \/ b.name_type = <<"LambdaLoopCapture">>
IsLoopFrame(b) == IsLoop(b.name_type)

NotInLoopMsg == "can only be used inside a loop body or lambda"
LambdaMsg == "This usage is not yet supported for lambdas or macros"

current_loop_through_lambda(c, usage) ==
    LET i == RFind(c.nominal_blocks, IsLoopFrame)
    IN  IF i = 0
        THEN [ret |-> None, diag |-> << Diag("TypeSafety::InvalidLoopControl", NotInLoopMsg) >>]
        ELSE [ret |-> Some(c.nominal_blocks[i].label), diag |-> << >>]

current_loop_outermost(c, usage) ==
    LET hits == { k \in 1..Len(c.nominal_blocks) : IsLoopOrCapture(c.nominal_blocks[k]) }
        i == IF hits = {} THEN 0 ELSE CHOOSE k \in hits : \A j \in hits : k <= j
    IN  IF i = 0
        THEN [ret |-> None, diag |-> << Diag("TypeSafety::InvalidLoopControl", NotInLoopMsg) >>]
        ELSE IF c.nominal_blocks[i].name_type = <<"LambdaLoopCapture">>
        THEN [ret |-> None, diag |-> << Diag("TypeSafety::InvalidLoopControl", LambdaMsg) >>]
        ELSE [ret |-> Some(c.nominal_blocks[i].label), diag |-> << >>]

current_loop(c, usage) ==
    LET i == RFind(c.nominal_blocks, IsLoopOrCapture)
    IN  IF i = 0
        THEN [ret |-> None, diag |-> << Diag("TypeSafety::InvalidLoopControl", NotInLoopMsg) >>]
        ELSE IF c.nominal_blocks[i].name_type = <<"LambdaLoopCapture">>
        THEN [ret |-> None, diag |-> << Diag("TypeSafety::InvalidLoopControl", LambdaMsg) >>]
        ELSE [ret |-> Some(c.nominal_blocks[i].label), diag |-> << >>]

current_continue(c) == current_loop(c, "Continue")
current_break(c) == current_loop(c, "Break")

current_return(c) ==
    LET IsLambdaReturn(b) == b.name_type = <<"LambdaReturn">>
        i == RFind(c.nominal_blocks, IsLambdaReturn)
    IN  IF i = 0 THEN None ELSE Some(c.nominal_blocks[i].label)

InvalidLabelMsg == "Invalid usage with a block label"
UnboundLabelMsg == "Unbound label"

resolve_nominal_label_any_frame(c, usage, name) ==
    LET Accepting(b) == b.name = Some(name) /\ is_acceptable_usage(b.name_type, usage)
        Carries(b) == b.name = Some(name)
        i == RFind(c.nominal_blocks, Accepting)
    IN  IF i # 0
        THEN [ret |-> Some(c.nominal_blocks[i].label), diag |-> << >>]
        ELSE IF RFind(c.nominal_blocks, Carries) # 0
        THEN [ret |-> None, diag |-> << Diag("NameResolution::InvalidLabel", InvalidLabelMsg) >>]
        ELSE [ret |-> None, diag |-> << Diag("NameResolution::UnboundLabel", UnboundLabelMsg) >>]

resolve_nominal_label(c, usage, name) ==
    LET Carries(b) == b.name = Some(name)
        i == RFind(c.nominal_blocks, Carries)
    IN  IF i # 0
        THEN IF is_acceptable_usage(c.nominal_blocks[i].name_type, usage)
             THEN [ret |-> Some(c.nominal_blocks[i].label), diag |-> << >>]
             ELSE [ret |-> None,
                   diag |-> << Diag("NameResolution::InvalidLabel", InvalidLabelMsg) >>]
        ELSE [ret |-> None, diag |-> << Diag("NameResolution::UnboundLabel", UnboundLabelMsg) >>]

RECURSIVE lambda_bind_list(_, _)
lambda_bind_list(c, elambda) ==
    IF elambda = << >>
    THEN [ctx |-> c, vars |-> << >>, diag |-> << >>]
    ELSE LET b == bind_list(c, Head(elambda))
             rest == lambda_bind_list(b.ctx, Tail(elambda))
         IN  [ctx |-> rest.ctx, vars |-> b.vars \o rest.vars, diag |-> b.diag \o rest.diag]

(* ------------------------------------------------------------------------------------ *)
(* Unused locals                                                                         *)
(* ------------------------------------------------------------------------------------ *)
UnderscoreNames == {"_y"}
starts_with_underscore(name) == name \in UnderscoreNames

UnusedMsg(kind, name) == << "Unused", kind, name >>

report_unused_local_any_name(v) ==
    << Diag("UnusedItem::Variable",
            UnusedMsg(IF v.id = 0 THEN "parameter" ELSE "local variable", v.name)) >>

report_unused_local(v) ==
    IF starts_with_underscore(v.name)
    THEN << >>
    ELSE << Diag("UnusedItem::Variable",
                 UnusedMsg(IF v.id = 0 THEN "parameter" ELSE "local variable", v.name)) >>

(* N::LValue_::Var { var, unused_binding } at a binding site of kind site *)
LValueVar(var, site) == [var |-> var, site |-> site, unused_binding |-> FALSE]

remove_unused_bindings_lvalue_flag_when_reported(used, lv, report) ==
    IF lv.var \in used
    THEN [lv |-> lv, diag |-> << >>]
    ELSE [lv |-> [lv EXCEPT !.unused_binding = report],
          diag |-> IF report THEN report_unused_local(lv.var) ELSE << >>]

remove_unused_bindings_lvalue(used, lv, report) ==
    IF lv.var \in used
    THEN [lv |-> lv, diag |-> << >>]
    ELSE [lv |-> [lv EXCEPT !.unused_binding = TRUE],
          diag |-> IF report THEN report_unused_local(lv.var) ELSE << >>]

(* The binding sites of a body in the order of the traversal: Declare reports, Bind and *)
(* lambda parameters do not.                                                            *)
RECURSIVE remove_unused_bindings_seq(_, _)
remove_unused_bindings_seq(used, seq) ==
    IF seq = << >>
    THEN [seq |-> << >>, diag |-> << >>]
    ELSE LET r == remove_unused_bindings_lvalue(used, Head(seq), Head(seq).site = "Declare")
             rest == remove_unused_bindings_seq(used, Tail(seq))
         IN  [seq |-> << r.lv >> \o rest.seq, diag |-> r.diag \o rest.diag]

RECURSIVE report_unused_parameters(_, _)
report_unused_parameters(used, parameters) ==
    IF parameters = << >>
    THEN << >>
    ELSE (IF Head(parameters) \in used THEN << >> ELSE report_unused_local(Head(parameters)))
         \o report_unused_parameters(used, Tail(parameters))

remove_unused_bindings_function(used, f) ==
    LET b == remove_unused_bindings_seq(used, f.body)
    IN  [f |-> [f EXCEPT !.body = b.seq],
         diag |-> b.diag \o report_unused_parameters(used, f.parameters)]

(* ------------------------------------------------------------------------------------ *)
(* History of the declarations of the current function                                   *)
(* ------------------------------------------------------------------------------------ *)
LogDeclared(log, declared, site, lvl) ==
    log \o [i \in 1..Len(declared) |->
                [name |-> declared[i].name, id |-> declared[i].id,
                 is_parameter |-> (site = "Parameter"), site |-> site,
                 lvl |-> lvl, live |-> TRUE]]

LogClosed(log, lvl) ==
    [i \in 1..Len(log) |-> IF log[i].lvl = lvl THEN [log[i] EXCEPT !.live = FALSE] ELSE log[i]]

Ctl(kind, c) ==
    [kind |-> kind, saved |-> IF c.local_scopes = << >> THEN EmptyMap ELSE Last(c.local_scopes),
     blocks |-> c.nominal_blocks, scopes |-> c.local_scopes]

Outcome(op, usage, name, ret, diag, saved) ==
    [op |-> op, usage |-> usage, name |-> name, ret |-> ret, diag |-> diag, saved |-> saved]

NoOutcome == Outcome("none", "", None, None, << >>, EmptyMap)

(* N::Function, as far as its variables go: the parameters of the signature and the     *)
(* binding sites of the body                                                            *)
IsParameter(d) == d.is_parameter
IsBindingSite(d) == d.site \in {"Bind", "Declare", "Lambda"}
NVar(log) == [i \in 1..Len(log) |-> Var(log[i].name, log[i].id)]
NLValues(log) == [i \in 1..Len(log) |-> LValueVar(Var(log[i].name, log[i].id), log[i].site)]
NFunction(log) ==
    [ parameters |-> NVar(SelectSeq(log, IsParameter)),
      body |-> NLValues(SelectSeq(log, IsBindingSite)) ]

InBody == Len(ctl) >= 2
CanNest == Len(ctl) < MaxDepth + 2
CanReport(d) == Len(diags) + Len(d) <= MaxDiags

(* ------------------------------------------------------------------------------------ *)
(* Naming: one function at a time                                                        *)
(* ------------------------------------------------------------------------------------ *)
InitNaming ==
    /\ ctl = << >>
    /\ context = ContextNew
    /\ diags = << >>
    /\ decl_log = << >>
    /\ last = NoOutcome
    /\ tcontext = TContextNew
    /\ ast = None

(* function: set up the scopes, resolve the signature, enter the body's sequence *)
Function(params) ==
    /\ ctl = << >>
    /\ LET c0 == [context EXCEPT !.local_scopes = << EmptyMap >>, !.local_count = EmptyMap,
                                 !.translating_fun = TRUE]
           sig == function_signature(c0, params)
       IN  /\ CanReport(sig.diag)
           /\ context' = new_local_scope(sig.ctx)
           /\ diags' = diags \o sig.diag
           /\ ctl' = << Ctl("function", c0), Ctl("sequence", sig.ctx) >>
           /\ decl_log' = LogDeclared(<< >>, sig.vars, "Parameter", 1)
           /\ last' = Outcome("function_signature", "", None, sig.vars, sig.diag, EmptyMap)
    /\ UNCHANGED << tcontext, ast >>

(* function: after the body, the unused bindings are flagged and reported and the      *)
(* per-function state is dropped                                                        *)
FunctionEnd ==
    /\ Len(ctl) = 1
    /\ LET used_locals == context.used_locals
           r == remove_unused_bindings_function(used_locals, NFunction(decl_log))
       IN  /\ CanReport(r.diag)
           /\ diags' = diags \o r.diag
           /\ last' = Outcome("function", "", None, r.f, r.diag, used_locals)
    /\ context' = [context EXCEPT !.local_count = EmptyMap,
                                  !.local_scopes = << >>,
                                  !.nominal_block_id = 0,
                                  !.used_fun_tparams = {},
                                  !.used_locals = {},
                                  !.translating_fun = FALSE]
    /\ ctl' = << >>
    /\ decl_log' = << >>
    /\ UNCHANGED << tcontext, ast >>

(* exp, Block(None, seq): sequence opens a scope *)
BlockEnter ==
    /\ InBody /\ CanNest
    /\ context' = new_local_scope(context)
    /\ ctl' = Append(ctl, Ctl("sequence", context))
    /\ last' = Outcome("new_local_scope", "", None, None, << >>, EmptyMap)
    /\ UNCHANGED << diags, decl_log >>
    /\ UNCHANGED << tcontext, ast >>

(* sequence: the items are done, the scope is closed *)
SequenceExit ==
    /\ InBody /\ Last(ctl).kind = "sequence"
    /\ context' = close_local_scope(context)
    /\ ctl' = Front(ctl)
    /\ decl_log' = LogClosed(decl_log, Len(context.local_scopes))
    /\ last' = Outcome("close_local_scope", "", None, None, << >>, Last(ctl).saved)
    /\ UNCHANGED diags
    /\ UNCHANGED << tcontext, ast >>

(* sequence_item, Bind(b, e) with variables on the left *)
Bind(names) ==
    /\ InBody /\ Last(ctl).kind \in {"sequence", "named_block"}
    /\ Len(decl_log) + Len(names) <= MaxDecls
    /\ LET b == bind_list(context, names)
       IN  /\ CanReport(b.diag)
           /\ context' = b.ctx
           /\ diags' = diags \o b.diag
           /\ decl_log' = LogDeclared(decl_log, b.vars, "Bind", Len(context.local_scopes))
           /\ last' = Outcome("bind_list", "", None, b.vars, b.diag, EmptyMap)
    /\ UNCHANGED ctl
    /\ UNCHANGED << tcontext, ast >>

(* sequence_item, Declare(b, ty_opt) with variables on the left *)
Declare(names) ==
    /\ InBody /\ Last(ctl).kind \in {"sequence", "named_block"}
    /\ Len(decl_log) + Len(names) <= MaxDecls
    /\ LET b == bind_list(context, names)
       IN  /\ CanReport(b.diag)
           /\ context' = b.ctx
           /\ diags' = diags \o b.diag
           /\ decl_log' = LogDeclared(decl_log, b.vars, "Declare", Len(context.local_scopes))
           /\ last' = Outcome("bind_list", "", None, b.vars, b.diag, EmptyMap)
    /\ UNCHANGED ctl
    /\ UNCHANGED << tcontext, ast >>

(* exp, Name(v): a use of a local *)
Name(v) ==
    /\ InBody
    /\ LET r == resolve_local(context, v)
       IN  /\ CanReport(r.diag)
           /\ context' = r.ctx
           /\ diags' = diags \o r.diag
           /\ last' = Outcome("resolve_local", "", Some(v), r.ret, r.diag, EmptyMap)
    /\ UNCHANGED << ctl, decl_log >>
    /\ UNCHANGED << tcontext, ast >>

(* exp, While(name_opt, cond, body) and Loop(name_opt, body): the body is entered *)
LoopEnter(name_opt, loop_type) ==
    /\ InBody /\ CanNest
    /\ context.nominal_block_id < MaxBlocks
    /\ context' = enter_nominal_block(context, name_opt, LoopOf(loop_type))
    /\ ctl' = Append(ctl, Ctl("loop", context))
    /\ last' = Outcome("enter_nominal_block", "", name_opt, None, << >>, EmptyMap)
    /\ UNCHANGED << diags, decl_log >>
    /\ UNCHANGED << tcontext, ast >>

LoopExit ==
    /\ InBody /\ Last(ctl).kind = "loop"
    /\ context' = exit_nominal_block(context)
    /\ ctl' = Front(ctl)
    /\ last' = Outcome("exit_nominal_block", "", None,
                       Some(Last(context.nominal_blocks).label), << >>, EmptyMap)
    /\ UNCHANGED << diags, decl_log >>
    /\ UNCHANGED << tcontext, ast >>

(* exp, Block(Some(name), seq) *)
NamedBlockEnter(name) ==
    /\ InBody /\ CanNest
    /\ context.nominal_block_id < MaxBlocks
    /\ LET c1 == enter_nominal_block(context, Some(name), <<"Block">>)
       IN  /\ context' = new_local_scope(c1)
           /\ ctl' = Append(ctl, Ctl("named_block", context))
    /\ last' = Outcome("enter_nominal_block", "", Some(name), None, << >>, EmptyMap)
    /\ UNCHANGED << diags, decl_log >>
    /\ UNCHANGED << tcontext, ast >>

NamedBlockExit ==
    /\ InBody /\ Last(ctl).kind = "named_block"
    /\ context' = exit_nominal_block(close_local_scope(context))
    /\ ctl' = Front(ctl)
    /\ decl_log' = LogClosed(decl_log, Len(context.local_scopes))
    /\ last' = Outcome("close_local_scope", "", None,
                       Some(Last(context.nominal_blocks).label), << >>, Last(ctl).saved)
    /\ UNCHANGED diags
    /\ UNCHANGED << tcontext, ast >>

(* exp, Lambda(binds, ty_opt, body): scope, parameters, the two frames *)
LambdaEnter(elambda) ==
    /\ InBody /\ CanNest
    /\ context.nominal_block_id + 1 < MaxBlocks
    /\ LET c1 == new_local_scope(context)
           b == lambda_bind_list(c1, elambda)
           c2 == enter_nominal_block(b.ctx, None, <<"LambdaLoopCapture">>)
           c3 == enter_nominal_block(c2, None, <<"LambdaReturn">>)
       IN  /\ Len(decl_log) + Len(b.vars) <= MaxDecls
           /\ CanReport(b.diag)
           /\ context' = c3
           /\ diags' = diags \o b.diag
           /\ decl_log' = LogDeclared(decl_log, b.vars, "Lambda", Len(c1.local_scopes))
           /\ last' = Outcome("lambda_bind_list", "", None, b.vars, b.diag, EmptyMap)
    /\ ctl' = Append(ctl, Ctl("lambda", context))
    /\ UNCHANGED << tcontext, ast >>

LambdaExit ==
    /\ InBody /\ Last(ctl).kind = "lambda"
    /\ LET c1 == close_local_scope(context)
           c2 == exit_nominal_block(c1)
           c3 == exit_nominal_block(c2)
       IN  /\ context' = c3
           /\ last' = Outcome("close_local_scope", "", None,
                              Some(Last(c1.nominal_blocks).label), << >>, Last(ctl).saved)
    /\ ctl' = Front(ctl)
    /\ decl_log' = LogClosed(decl_log, Len(context.local_scopes))
    /\ UNCHANGED diags
    /\ UNCHANGED << tcontext, ast >>

(* exp, Return(Some(label), e) *)
ReturnLabel(name) ==
    /\ InBody
    /\ LET r == resolve_nominal_label(context, "Return", name)
       IN  /\ CanReport(r.diag)
           /\ diags' = diags \o r.diag
           /\ last' = Outcome("resolve_nominal_label", "Return", Some(name), r.ret, r.diag, EmptyMap)
    /\ UNCHANGED << ctl, context, decl_log >>
    /\ UNCHANGED << tcontext, ast >>

(* exp, Return(None, e) *)
Return ==
    /\ InBody
    /\ last' = Outcome("current_return", "Return", None, current_return(context), << >>, EmptyMap)
    /\ UNCHANGED << ctl, context, diags, decl_log >>
    /\ UNCHANGED << tcontext, ast >>

(* exp, Break(Some(label), e) *)
BreakLabel(name) ==
    /\ InBody
    /\ LET r == resolve_nominal_label(context, "Break", name)
       IN  /\ CanReport(r.diag)
           /\ diags' = diags \o r.diag
           /\ last' = Outcome("resolve_nominal_label", "Break", Some(name), r.ret, r.diag, EmptyMap)
    /\ UNCHANGED << ctl, context, decl_log >>
    /\ UNCHANGED << tcontext, ast >>

(* exp, Break(None, e) *)
Break ==
    /\ InBody
    /\ LET r == current_break(context)
       IN  /\ CanReport(r.diag)
           /\ diags' = diags \o r.diag
           /\ last' = Outcome("current_loop", "Break", None, r.ret, r.diag, EmptyMap)
    /\ UNCHANGED << ctl, context, decl_log >>
    /\ UNCHANGED << tcontext, ast >>

(* exp, Continue(Some(label)) *)
ContinueLabel(name) ==
    /\ InBody
    /\ LET r == resolve_nominal_label(context, "Continue", name)
       IN  /\ CanReport(r.diag)
           /\ diags' = diags \o r.diag
           /\ last' = Outcome("resolve_nominal_label", "Continue", Some(name), r.ret, r.diag, EmptyMap)
    /\ UNCHANGED << ctl, context, decl_log >>
    /\ UNCHANGED << tcontext, ast >>

(* exp, Continue(None) *)
Continue ==
    /\ InBody
    /\ LET r == current_continue(context)
       IN  /\ CanReport(r.diag)
           /\ diags' = diags \o r.diag
           /\ last' = Outcome("current_loop", "Continue", None, r.ret, r.diag, EmptyMap)
    /\ UNCHANGED << ctl, context, decl_log >>
    /\ UNCHANGED << tcontext, ast >>

LabelOpts == {None} \cup { Some(l) : l \in Labels }

(* Functions with parameters, lets, uses, blocks and lambdas *)
LocalsNest == Len(ctl) < MaxScopes + 2

NextLocals ==
    \/ \E params \in ParamLists : Function(params)
    \/ FunctionEnd
    \/ LocalsNest /\ BlockEnter
    \/ SequenceExit
    \/ \E names \in BindLists : Bind(names)
    \/ \E v \in Names : Name(v)
    \/ \E elambda \in LambdaBindLists : LocalsNest /\ LambdaEnter(elambda)
    \/ LambdaExit

SpecLocals == InitNaming /\ [][NextLocals]_vars

(* Functions whose parameters and locals are used or not, with and without the ignore  *)
(* prefix                                                                               *)
UnusedNames == {"x", "_y"}
UnusedParamLists == { << >>, <<"x">>, <<"_y">> }
UnusedLambdaBindLists == { << <<"x">> >> }

NextUnused ==
    \/ \E params \in UnusedParamLists : Function(params)
    \/ FunctionEnd
    \/ SequenceExit
    \/ \E n \in UnusedNames : Bind(<< n >>)
    \/ \E n \in UnusedNames : Declare(<< n >>)
    \/ \E v \in UnusedNames : Name(v)
    \/ \E elambda \in UnusedLambdaBindLists : LocalsNest /\ LambdaEnter(elambda)
    \/ LambdaExit

SpecUnused == InitNaming /\ [][NextUnused]_vars

(* Functions without locals: loops, named blocks, lambdas and the jumps in them *)
NextBlocks ==
    \/ Function(<< >>)
    \/ FunctionEnd
    \/ SequenceExit
    \/ \E name_opt \in LabelOpts, lt \in LoopTypes : LoopEnter(name_opt, lt)
    \/ LoopExit
    \/ \E l \in Labels : NamedBlockEnter(l)
    \/ NamedBlockExit
    \/ LambdaEnter(<< >>)
    \/ LambdaExit
    \/ \E l \in Labels : ReturnLabel(l)
    \/ Return
    \/ \E l \in Labels : BreakLabel(l)
    \/ Break
    \/ \E l \in Labels : ContinueLabel(l)
    \/ Continue

SpecBlocks == InitNaming /\ [][NextBlocks]_vars

(* ------------------------------------------------------------------------------------ *)
(* Types: resolution of type applications and the arity check                            *)
(* ------------------------------------------------------------------------------------ *)
EName(n) == [ma |-> "Name", m |-> "", n |-> n]
EModuleAccess(m, n) == [ma |-> "ModuleAccess", m |-> m, n |-> n]

EUnit == [k |-> "Unit"]
EApply(n, tys) == [k |-> "Apply", n |-> n, tys |-> tys]

NUnit == [k |-> "Unit"]
NUnresolvedError == [k |-> "UnresolvedError"]
NParam(tp) == [k |-> "Param", tp |-> tp]
NApply(tn, tys) == [k |-> "Apply", tn |-> tn, tys |-> tys]

RTBuiltinType(arity) == [rt |-> "BuiltinType", arity |-> arity]
RTModuleType(dt, arity) == [rt |-> "ModuleType", module_type |-> dt, arity |-> arity]
RTTParam == [rt |-> "TParam", arity |-> 0]
RTUnbound == [rt |-> "Unbound", arity |-> 0]

resolve_unscoped_type(c, n) ==
    IF n \in DOMAIN c.unscoped_types
    THEN [rt |-> c.unscoped_types[n], diag |-> << >>]
    ELSE [rt |-> RTUnbound,
          diag |-> << Diag("NameResolution::UnboundType", "Unbound type in current scope") >>]

resolve_module_type_silent_member(c, m, n) ==
    IF m \notin DOMAIN c.scoped_types
    THEN [ret |-> None,
          diag |-> << Diag("NameResolution::UnboundModule", "Unbound module") >>]
    ELSE IF n \notin DOMAIN c.scoped_types[m]
    THEN [ret |-> None, diag |-> << >>]
    ELSE [ret |-> Some(c.scoped_types[m][n]), diag |-> << >>]

resolve_module_type(c, m, n) ==
    IF m \notin DOMAIN c.scoped_types
    THEN [ret |-> None,
          diag |-> << Diag("NameResolution::UnboundModule", "Unbound module") >>]
    ELSE IF n \notin DOMAIN c.scoped_types[m]
    THEN [ret |-> None,
          diag |-> << Diag("NameResolution::UnboundModuleMember",
                           "Invalid module access. Unbound struct in module") >>]
    ELSE [ret |-> Some(c.scoped_types[m][n]), diag |-> << >>]

resolve_type(c, ma) ==
    IF ma.ma = "Name"
    THEN resolve_unscoped_type(c, ma.n)
    ELSE LET r == resolve_module_type(c, ma.m, ma.n)
         IN  IF r.ret = None
             THEN [rt |-> RTUnbound, diag |-> r.diag]
             ELSE [rt |-> r.ret[1], diag |-> << >>]

RECURSIVE PopTo(_, _)
PopTo(ty_args, arity) ==
    IF Len(ty_args) > arity THEN PopTo(Front(ty_args), arity) ELSE ty_args

RECURSIVE PushTo(_, _)
PushTo(ty_args, arity) ==
    IF Len(ty_args) < arity THEN PushTo(Append(ty_args, NUnresolvedError), arity) ELSE ty_args

ArityMsg == "Invalid instantiation. Expected a different number of type argument(s)"

RECURSIVE DropFrontTo(_, _)
DropFrontTo(ty_args, arity) ==
    IF Len(ty_args) > arity THEN DropFrontTo(Tail(ty_args), arity) ELSE ty_args

check_type_argument_arity_drop_front(ty_args, arity) ==
    LET args_len == Len(ty_args)
        diag_code == IF args_len > arity
                     THEN "NameResolution::TooManyTypeArguments"
                     ELSE "NameResolution::TooFewTypeArguments"
    IN  [ tys |-> PushTo(DropFrontTo(ty_args, arity), arity),
          diag |-> IF args_len # arity THEN << Diag(diag_code, ArityMsg) >> ELSE << >> ]

check_type_argument_arity_silent_pad(ty_args, arity) ==
    LET args_len == Len(ty_args)
    IN  [ tys |-> PushTo(PopTo(ty_args, arity), arity),
          diag |-> IF args_len > arity
                   THEN << Diag("NameResolution::TooManyTypeArguments", ArityMsg) >>
                   ELSE << >> ]

check_type_argument_arity(ty_args, arity) ==
    LET args_len == Len(ty_args)
        diag_code == IF args_len > arity
                     THEN "NameResolution::TooManyTypeArguments"
                     ELSE "NameResolution::TooFewTypeArguments"
    IN  [ tys |-> PushTo(PopTo(ty_args, arity), arity),
          diag |-> IF args_len # arity THEN << Diag(diag_code, ArityMsg) >> ELSE << >> ]

(* ty_args: None when the call names no type arguments *)
check_builtin_ty_args_impl(arity, ty_args) ==
    IF ty_args = None
    THEN [tys |-> None, diag |-> << >>]
    ELSE LET args == ty_args[1]
             args_len == Len(args)
             diag_code == IF args_len > arity
                          THEN "NameResolution::TooManyTypeArguments"
                          ELSE "NameResolution::TooFewTypeArguments"
         IN  [ tys |-> Some(PushTo(PopTo(args, arity), arity)),
               diag |-> IF args_len # arity THEN << Diag(diag_code, ArityMsg) >> ELSE << >> ]

RECURSIVE type_(_, _)
RECURSIVE types(_, _)

types(c, tys) ==
    IF tys = << >>
    THEN [ctx |-> c, tys |-> << >>, diag |-> << >>]
    ELSE LET t == type_(c, Head(tys))
             rest == types(t.ctx, Tail(tys))
         IN  [ctx |-> rest.ctx, tys |-> << t.ty >> \o rest.tys, diag |-> t.diag \o rest.diag]

type_(c, ety) ==
    IF ety.k = "Unit"
    THEN [ctx |-> c, ty |-> NUnit, diag |-> << >>]
    ELSE LET r == resolve_type(c, ety.n)
         IN  CASE r.rt.rt = "Unbound" ->
                    [ctx |-> c, ty |-> NUnresolvedError, diag |-> r.diag]
               [] r.rt.rt = "TParam" ->
                    IF ety.tys # << >>
                    THEN [ctx |-> c, ty |-> NUnresolvedError,
                          diag |-> << Diag("NameResolution::NamePositionMismatch",
                                           "Generic type parameters cannot take type arguments") >>]
                    ELSE [ctx |-> IF c.translating_fun
                                  THEN [c EXCEPT !.used_fun_tparams = @ \cup {ety.n.n}]
                                  ELSE c,
                          ty |-> NParam(ety.n.n), diag |-> << >>]
               [] OTHER ->
                    LET ts == types(c, ety.tys)
                        chk == check_type_argument_arity(ts.tys, r.rt.arity)
                    IN  [ctx |-> ts.ctx, ty |-> NApply(ety.n, chk.tys), diag |-> ts.diag \o chk.diag]

(* ------------------------------------------------------------------------------------ *)
(* Types: the types written in a module whose declarations fix the arities               *)
(* ------------------------------------------------------------------------------------ *)
ELeaves == { EUnit, EApply(EName("T"), << >>), EApply(EModuleAccess("m", "S"), << >>) }
ETypeLists == UNION { [1..k -> ELeaves] : k \in 0..MaxTyArgs }
TypeHeads ==
    { EName("B"), EName("T"), EName("U"),
      EModuleAccess("m", "S"), EModuleAccess("m", "E"), EModuleAccess("m", "U"),
      EModuleAccess("u", "S") }
Arities == 0..MaxArity

(* a builtin B and a type parameter T in scope; a module m with a struct S and an enum E *)
UnscopedTypes(b) ==
    [n \in {"B", "T"} |-> IF n = "B" THEN RTBuiltinType(b) ELSE RTTParam]

ScopedTypes(s, e) ==
    [m \in {"m"} |->
        [n \in {"S", "E"} |->
            IF n = "S" THEN RTModuleType("Struct", s) ELSE RTModuleType("Enum", e)]]

InitTypes ==
    /\ ctl = << >>
    /\ \E b \in Arities, s \in Arities, e \in Arities, tf \in BOOLEAN :
          context = [ContextNew EXCEPT !.unscoped_types = UnscopedTypes(b),
                                       !.scoped_types = ScopedTypes(s, e),
                                       !.translating_fun = tf]
    /\ diags = << >>
    /\ decl_log = << >>
    /\ last = NoOutcome
    /\ tcontext = TContextNew
    /\ ast = None

(* type_ on a type written in a signature, a field or an annotation *)
Type(ety) ==
    /\ LET r == type_(context, ety)
       IN  /\ CanReport(r.diag)
           /\ context' = r.ctx
           /\ diags' = diags \o r.diag
           /\ last' = Outcome("type_", "", Some(ety), Some(r.ty), r.diag, EmptyMap)
    /\ UNCHANGED << ctl, decl_log >>
    /\ UNCHANGED << tcontext, ast >>

(* exp, Vector(loc, tys_opt, rhs) with an empty rhs: the builtin takes one type argument *)
Vector(tys_opt) ==
    /\ LET ts == IF tys_opt = None
                 THEN [ctx |-> context, tys |-> None, diag |-> << >>]
                 ELSE LET t == types(context, tys_opt[1])
                      IN  [ctx |-> t.ctx, tys |-> Some(t.tys), diag |-> t.diag]
           chk == check_builtin_ty_args_impl(1, ts.tys)
       IN  /\ CanReport(ts.diag \o chk.diag)
           /\ context' = ts.ctx
           /\ diags' = diags \o ts.diag \o chk.diag
           /\ last' = Outcome("check_builtin_ty_args_impl", "", Some(tys_opt), chk.tys,
                              ts.diag \o chk.diag, EmptyMap)
    /\ UNCHANGED << ctl, decl_log >>
    /\ UNCHANGED << tcontext, ast >>

NextTypes ==
    \/ \E h \in TypeHeads, tys \in ETypeLists : Type(EApply(h, tys))
    \/ \E tys \in ETypeLists : Vector(Some(tys))
    \/ Vector(None)

SpecTypes == InitTypes /\ [][NextTypes]_vars

(* ------------------------------------------------------------------------------------ *)
(* Typing: macro expansion                                                               *)
(* ------------------------------------------------------------------------------------ *)
Macros == { <<"m", "f">>, <<"m", "g">> }
CallLocs == {1, 2}
MacroArguments == {"Lambda", "Substituted"}

MacroCall(m, f, loc) == [kind |-> "Call", module |-> m, function |-> f, invocation |-> loc]
MacroArgumentEntry == [kind |-> "Argument", module |-> "", function |-> "", invocation |-> 0]

(* core::Context::add_macro_expansion: a macro already being expanded is rejected with  *)
(* a diagnostic and nothing is pushed; otherwise the call is pushed.                    *)
add_macro_expansion(tc, m, f, loc) ==
    IF \E i \in 1..Len(tc.macro_expansion) :
          /\ tc.macro_expansion[i].kind = "Call"
          /\ tc.macro_expansion[i].module = m
          /\ tc.macro_expansion[i].function = f
    THEN [ctx |-> tc, valid |-> FALSE,
          diag |-> << Diag("TypeSafety::CannotExpandMacro", "Recursive macro expansion") >>]
    ELSE [ctx |-> [tc EXCEPT !.macro_expansion = Append(@, MacroCall(m, f, loc))],
          valid |-> TRUE, diag |-> << >>]

(* core::Context::pop_macro_expansion: pops the top entry, which must be a call *)
pop_macro_expansion(tc, loc, m, f) ==
    IF tc.macro_expansion # << >> /\ Last(tc.macro_expansion).kind = "Call"
    THEN [ctx |-> [tc EXCEPT !.macro_expansion = Front(@)], ok |-> TRUE, diag |-> << >>]
    ELSE [ctx |-> [tc EXCEPT !.macro_expansion = IF @ = << >> THEN @ ELSE Front(@)],
          ok |-> FALSE,
          diag |-> << Diag("Bug::ICE", "macro expansion stack should have a call") >>]

(* core::Context::maybe_enter_macro_argument / maybe_exit_macro_argument *)
maybe_enter_macro_argument(tc, from_macro_argument) ==
    IF from_macro_argument = None
    THEN tc
    ELSE [tc EXCEPT !.macro_expansion = Append(@, MacroArgumentEntry)]

maybe_exit_macro_argument(tc, from_macro_argument) ==
    IF from_macro_argument = None
    THEN tc
    ELSE [tc EXCEPT !.macro_expansion = Front(@)]

TError == "UnresolvedError"
TBlock == "Block"

(* expand_macro when macro_expand::call gave no expansion: the error result, then the   *)
(* common exit through pop_macro_expansion                                              *)
expand_macro_failed_return_early(tc, call_loc, m, f) ==
    [ctx |-> tc, ret |-> TError, diag |-> << >>]

expand_macro_failed(tc, call_loc, m, f) ==
    LET p == pop_macro_expansion(tc, call_loc, m, f)
    IN  [ctx |-> p.ctx, ret |-> TError, diag |-> p.diag]

(* expand_macro after the expanded body has been typed *)
expand_macro_done(tc, call_loc, m, f) ==
    LET p == pop_macro_expansion(tc, call_loc, m, f)
    IN  [ctx |-> p.ctx, ret |-> IF p.ok THEN TBlock ELSE TError, diag |-> p.diag]

InitTyping ==
    /\ ctl = << >>
    /\ context = ContextNew
    /\ diags = << >>
    /\ decl_log = << >>
    /\ last = NoOutcome
    /\ tcontext = TContextNew
    /\ ast = None

TCtl(kind, arg) == [kind |-> kind, saved |-> tcontext.macro_expansion, blocks |-> arg]
CanNestTyping == Len(ctl) < MaxDepth + 1

(* expand_macro, a call the expansion stack rejects: the error result at once *)
ExpandMacroRejected(m, f, call_loc) ==
    /\ LET a == add_macro_expansion(tcontext, m, f, call_loc)
       IN  /\ ~a.valid
           /\ CanReport(a.diag)
           /\ tcontext' = a.ctx
           /\ diags' = diags \o a.diag
           /\ last' = Outcome("expand_macro", "rejected", Some(<< m, f, call_loc >>),
                              Some(TError), a.diag, tcontext.macro_expansion)
    /\ UNCHANGED << ctl, context, decl_log, ast >>

(* expand_macro, macro_expand::call reports an error and gives no expansion *)
ExpandMacroFailed(m, f, call_loc) ==
    /\ LET a == add_macro_expansion(tcontext, m, f, call_loc)
           call_diag == << Diag("TypeSafety::CannotExpandMacro", "Unable to expand macro") >>
           r == expand_macro_failed(a.ctx, call_loc, m, f)
       IN  /\ a.valid
           /\ CanReport(call_diag \o r.diag)
           /\ tcontext' = r.ctx
           /\ diags' = diags \o call_diag \o r.diag
           /\ last' = Outcome("expand_macro", "failed", Some(<< m, f, call_loc >>),
                              Some(r.ret), call_diag \o r.diag, tcontext.macro_expansion)
    /\ UNCHANGED << ctl, context, decl_log, ast >>

(* expand_macro, the call is expanded and the typing of its body begins *)
ExpandMacroBody(m, f, call_loc) ==
    /\ CanNestTyping
    /\ LET a == add_macro_expansion(tcontext, m, f, call_loc)
       IN  /\ a.valid
           /\ tcontext' = a.ctx
    /\ ctl' = Append(ctl, TCtl("expand_macro", << m, f, call_loc >>))
    /\ last' = Outcome("add_macro_expansion", "", Some(<< m, f, call_loc >>), None, << >>, << >>)
    /\ UNCHANGED << context, diags, decl_log, ast >>

(* expand_macro, the body is typed: the block is built and the entry popped *)
ExpandMacroDone ==
    /\ ctl # << >> /\ Last(ctl).kind = "expand_macro"
    /\ LET call == Last(ctl).blocks
           r == expand_macro_done(tcontext, call[3], call[1], call[2])
       IN  /\ CanReport(r.diag)
           /\ tcontext' = r.ctx
           /\ diags' = diags \o r.diag
           /\ last' = Outcome("expand_macro", "expanded", Some(call), Some(r.ret), r.diag,
                              Last(ctl).saved)
    /\ ctl' = Front(ctl)
    /\ UNCHANGED << context, decl_log, ast >>

(* exp, Block: a block that was a macro argument is entered in the expanded body *)
MacroArgumentEnter(from_macro_argument) ==
    /\ ctl # << >> /\ CanNestTyping
    /\ tcontext' = maybe_enter_macro_argument(tcontext, from_macro_argument)
    /\ ctl' = Append(ctl, TCtl("block", from_macro_argument))
    /\ last' = Outcome("maybe_enter_macro_argument", "", from_macro_argument, None, << >>, << >>)
    /\ UNCHANGED << context, diags, decl_log, ast >>

MacroArgumentExit ==
    /\ ctl # << >> /\ Last(ctl).kind = "block"
    /\ tcontext' = maybe_exit_macro_argument(tcontext, Last(ctl).blocks)
    /\ ctl' = Front(ctl)
    /\ last' = Outcome("maybe_exit_macro_argument", "", Last(ctl).blocks, None, << >>,
                       Last(ctl).saved)
    /\ UNCHANGED << context, diags, decl_log, ast >>

NextTyping ==
    \/ \E mf \in Macros, loc \in CallLocs : ExpandMacroRejected(mf[1], mf[2], loc)
    \/ \E mf \in Macros, loc \in CallLocs : ExpandMacroFailed(mf[1], mf[2], loc)
    \/ \E mf \in Macros, loc \in CallLocs : ExpandMacroBody(mf[1], mf[2], loc)
    \/ ExpandMacroDone
    \/ \E a \in {None} \cup { Some(x) : x \in MacroArguments } : MacroArgumentEnter(a)
    \/ MacroArgumentExit

SpecTyping == InitTyping /\ [][NextTyping]_vars

(* ------------------------------------------------------------------------------------ *)
(* Claims about local scopes (SpecLocals)                                                *)
(* ------------------------------------------------------------------------------------ *)
Earlier(i) == { j \in 1..(i - 1) : decl_log[j].name = decl_log[i].name }
FirstOf(i) == IF Earlier(i) = {} THEN i ELSE CHOOSE j \in Earlier(i) : \A k \in Earlier(i) : j <= k
Base(is_parameter) == IF is_parameter THEN 0 ELSE 1

(* C1 as stated: every declare_local call gives the id (0 if it declares a parameter,   *)
(* otherwise 1) plus the number of earlier declare_local calls for the same name.       *)
C1_IdIsOwnBasePlusPriorCount ==
    \A i \in 1..Len(decl_log) :
        decl_log[i].id = Base(decl_log[i].is_parameter) + Cardinality(Earlier(i))

(* C1 amended: the id is (0 if the FIRST declaration of that name in the function was a *)
(* parameter, otherwise 1) plus the number of earlier declare_local calls for the name. *)
C1_IdIsFirstBasePlusPriorCount ==
    \A i \in 1..Len(decl_log) :
        decl_log[i].id = Base(decl_log[FirstOf(i)].is_parameter) + Cardinality(Earlier(i))

C1_Witness ==
    \E i \in 1..Len(decl_log) :
        /\ ~decl_log[i].is_parameter
        /\ Earlier(i) # {}
        /\ decl_log[FirstOf(i)].is_parameter

LiveDecls(name) == { i \in 1..Len(decl_log) : decl_log[i].name = name /\ decl_log[i].live }
MostRecentLive(name) ==
    IF LiveDecls(name) = {}
    THEN None
    ELSE LET i == CHOOSE k \in LiveDecls(name) : \A j \in LiveDecls(name) : j <= k
         IN  Some(Var(name, decl_log[i].id))

(* C2: a use of a local name resolves to the (name, id) of the most recent declaration  *)
(* of that name that is still in scope, and to nothing when there is none.              *)
C2_UseResolvesToMostRecentInScope ==
    last.op = "resolve_local" => last.ret = MostRecentLive(last.name[1])

C2_Witness ==
    /\ last.op = "resolve_local"
    /\ Cardinality(LiveDecls(last.name[1])) >= 2
    /\ last.ret = MostRecentLive(last.name[1])

(* C3: once a scope is closed every name resolves exactly as it did just before the     *)
(* scope was opened.                                                                     *)
C3_CloseRestoresResolution ==
    last.op = "close_local_scope" =>
        \A n \in Names : MapGet(Last(context.local_scopes), n) = MapGet(last.saved, n)

C3_Witness ==
    /\ last.op = "close_local_scope"
    /\ \E i \in 1..Len(decl_log) :
          /\ ~decl_log[i].live
          /\ MapGet(Last(context.local_scopes), decl_log[i].name) # Some(decl_log[i].id)

(* ------------------------------------------------------------------------------------ *)
(* Claims about nominal blocks (SpecBlocks)                                              *)
(* ------------------------------------------------------------------------------------ *)
Blocks == context.nominal_blocks
IsLambdaFrame(b) == b.name_type \in { <<"LambdaReturn">>, <<"LambdaLoopCapture">> }

(* C6: no lambda frame on the nominal-block stack accepts the usage continue.           *)
C6_LambdaNeverAcceptsContinue ==
    \A i \in 1..Len(Blocks) :
        IsLambdaFrame(Blocks[i]) => ~is_acceptable_usage(Blocks[i].name_type, "Continue")

(* what a label's kind accepts: loop labels break and continue, named blocks return *)
LabelAccepts(name_type, usage) ==
    \/ name_type[1] = "Loop" /\ usage \in {"Break", "Continue"}
    \/ name_type[1] = "Block" /\ usage = "Return"

Carrying(name) == { i \in 1..Len(Blocks) : Blocks[i].name = Some(name) }
Innermost(S) == CHOOSE i \in S : \A j \in S : j <= i

(* C7 as stated: a labelled jump resolves to a target iff SOME enclosing frame carries  *)
(* the label and that frame's kind accepts the usage.                                   *)
C7_ResolvesIffSomeFrameAccepts ==
    last.op = "resolve_nominal_label" =>
        ( last.ret # None <=>
            \E i \in Carrying(last.name[1]) : LabelAccepts(Blocks[i].name_type, last.usage) )

(* C7 amended: the INNERMOST frame carrying the label decides: its label is the target  *)
(* when its kind accepts the usage, otherwise no target and an invalid-label            *)
(* diagnostic; with no frame carrying the label, no target and an unbound-label one.    *)
C7_InnermostCarrierDecides ==
    last.op = "resolve_nominal_label" =>
        LET S == Carrying(last.name[1])
        IN  IF S = {}
            THEN last.ret = None /\ Len(last.diag) = 1
                 /\ last.diag[1].code = "NameResolution::UnboundLabel"
            ELSE IF LabelAccepts(Blocks[Innermost(S)].name_type, last.usage)
            THEN last.ret = Some(Blocks[Innermost(S)].label) /\ last.diag = << >>
            ELSE last.ret = None /\ Len(last.diag) = 1
                 /\ last.diag[1].code = "NameResolution::InvalidLabel"

C7_Witness ==
    /\ last.op = "resolve_nominal_label"
    /\ Cardinality(Carrying(last.name[1])) >= 2
    /\ last.ret = None
    /\ \E i \in Carrying(last.name[1]) : LabelAccepts(Blocks[i].name_type, last.usage)

LoopFrames == { i \in 1..Len(Blocks) : Blocks[i].name_type[1] = "Loop" }
CaptureFrames == { i \in 1..Len(Blocks) : Blocks[i].name_type = <<"LambdaLoopCapture">> }
InLoopNoLambdaBetween ==
    LoopFrames # {} /\ \A j \in CaptureFrames : j < Innermost(LoopFrames)
InLambdaNoLoopBetween ==
    CaptureFrames # {} /\ \A i \in LoopFrames : i < Innermost(CaptureFrames)

(* C8: an unlabelled break or continue in a loop body, with no lambda boundary between  *)
(* it and that loop, resolves to the label generated for the innermost enclosing loop,  *)
(* whatever named blocks lie in between.                                                 *)
C8_UnlabelledResolvesToInnermostLoop ==
    (last.op = "current_loop" /\ InLoopNoLambdaBetween) =>
        LET b == Blocks[Innermost(LoopFrames)]
        IN  /\ last.ret = Some(b.label)
            /\ last.diag = << >>
            /\ \A i \in 1..Len(Blocks) : i # Innermost(LoopFrames) => Blocks[i].label # b.label

C8_Witness ==
    /\ last.op = "current_loop" /\ InLoopNoLambdaBetween
    /\ Cardinality(LoopFrames) >= 2
    /\ last.ret = Some(Blocks[Innermost(LoopFrames)].label)

(* C9: an unlabelled break or continue in a lambda body, outside any loop nested in     *)
(* that lambda, has no target and records the lambda diagnostic, never the not-in-a-    *)
(* loop or unbound-label one.                                                            *)
C9_UnlabelledInLambdaRejected ==
    (last.op = "current_loop" /\ InLambdaNoLoopBetween) =>
        /\ last.ret = None
        /\ last.diag = << Diag("TypeSafety::InvalidLoopControl", LambdaMsg) >>

C9_Witness ==
    /\ last.op = "current_loop" /\ InLambdaNoLoopBetween
    /\ LoopFrames # {}
    /\ last.ret = None

(* ------------------------------------------------------------------------------------ *)
(* Claims about type applications (SpecTypes)                                            *)
(* ------------------------------------------------------------------------------------ *)
Head_ == last.name[1].n
HeadKnown ==
    IF Head_.ma = "Name"
    THEN Head_.n \in DOMAIN context.unscoped_types
    ELSE Head_.m \in DOMAIN context.scoped_types
         /\ Head_.n \in DOMAIN context.scoped_types[Head_.m]
HeadDeclaration ==
    IF Head_.ma = "Name"
    THEN context.unscoped_types[Head_.n]
    ELSE context.scoped_types[Head_.m][Head_.n]
AppliedToDeclared ==
    /\ last.op = "type_"
    /\ HeadKnown
    /\ HeadDeclaration.rt \in {"BuiltinType", "ModuleType"}
Supplied == last.name[1].tys
DeclaredArity == HeadDeclaration.arity
Min(a, b) == IF a < b THEN a ELSE b

(* C4: the resolved application carries exactly arity arguments: the first min(n, a)    *)
(* supplied ones in order, then UnresolvedError for the missing ones.                   *)
C4_ResolvedHasExactlyArityArgs ==
    AppliedToDeclared =>
        LET got == last.ret[1].tys
        IN  /\ Len(got) = DeclaredArity
            /\ \A i \in 1..Min(Len(Supplied), DeclaredArity) :
                  got[i] = type_(context, Supplied[i]).ty
            /\ \A i \in (Len(Supplied) + 1)..DeclaredArity : got[i] = NUnresolvedError

C4_Witness ==
    /\ AppliedToDeclared
    /\ Len(Supplied) = 2 /\ DeclaredArity = 1
    /\ Supplied[1] # Supplied[2]
    /\ last.ret[1].tys = << type_(context, Supplied[1]).ty >>

ArityDiags(n, a) ==
    IF n > a THEN << "NameResolution::TooManyTypeArguments" >>
    ELSE IF n < a THEN << "NameResolution::TooFewTypeArguments" >>
    ELSE << >>
Codes(ds) == [i \in 1..Len(ds) |-> ds[i].code]

(* C5: an arity check records exactly one diagnostic when the counts differ (too-many   *)
(* when more were supplied, too-few when fewer) and none when they are equal; what the  *)
(* resolution of the arguments themselves reports comes before it.                      *)
C5_OneArityDiagnosticIffMismatch ==
    /\ AppliedToDeclared =>
          Codes(last.diag) =
              Codes(types(context, Supplied).diag) \o ArityDiags(Len(Supplied), DeclaredArity)
    /\ (last.op = "check_builtin_ty_args_impl" /\ last.name[1] # None) =>
          Codes(last.diag) =
              Codes(types(context, last.name[1][1]).diag) \o ArityDiags(Len(last.name[1][1]), 1)

C5_Witness ==
    /\ AppliedToDeclared
    /\ Len(Supplied) < DeclaredArity
    /\ Codes(last.diag) = << "NameResolution::TooFewTypeArguments" >>

(* ------------------------------------------------------------------------------------ *)
(* Claims about macro expansion (SpecTyping)                                             *)
(* ------------------------------------------------------------------------------------ *)
(* C10: when the expansion of a macro call returns, on any of its exit paths, the       *)
(* macro-expansion stack is what it was when the call began.                            *)
C10_ExpansionStackRestored ==
    last.op = "expand_macro" => tcontext.macro_expansion = last.saved

C10_Witness ==
    /\ last.op = "expand_macro" /\ last.usage = "failed"
    /\ tcontext.macro_expansion # << >>
    /\ tcontext.macro_expansion = last.saved

(* ------------------------------------------------------------------------------------ *)
(* Unused bindings                                                                       *)
(* ------------------------------------------------------------------------------------ *)
Count(seq, P(_)) == Cardinality({ i \in 1..Len(seq) : P(seq[i]) })
ResolvedFunction == last.ret
RecordedUsed == last.saved
AllNames == Names \cup UnusedNames
UnusedDiagsFor(n) ==
    LET Is(d) == d.code = "UnusedItem::Variable" /\ d.msg[3] = n
    IN  Count(last.diag, Is)
UnusedParametersNamed(n) ==
    LET Is(v) == v.name = n /\ v \notin RecordedUsed
    IN  Count(ResolvedFunction.parameters, Is)
UnusedLocalsNamed(n) ==
    LET Is(lv) == lv.var.name = n /\ lv.var \notin RecordedUsed
    IN  Count(ResolvedFunction.body, Is)
UnusedDeclaresNamed(n) ==
    LET Is(lv) == lv.var.name = n /\ lv.var \notin RecordedUsed /\ lv.site = "Declare"
    IN  Count(ResolvedFunction.body, Is)

(* C11, as stated: after a function with a body is resolved, every parameter and every  *)
(* local declared in the body that was never recorded as used has an unused-variable    *)
(* diagnostic, unless its name starts with an underscore.                               *)
C11_EveryUnusedVariableReported ==
    last.op = "function" =>
        \A n \in AllNames : ~starts_with_underscore(n) =>
            UnusedDiagsFor(n) >= UnusedParametersNamed(n) + UnusedLocalsNamed(n)

(* C11, amended: the diagnostics of the pass are exactly one per unused parameter and   *)
(* one per unused local declared by a let without initializer, for names without the    *)
(* underscore prefix; unused locals bound by a let with initializer or as lambda        *)
(* parameters get none.                                                                 *)
C11_UnusedParametersAndDeclaresReported ==
    last.op = "function" =>
        /\ \A i \in 1..Len(last.diag) : last.diag[i].code = "UnusedItem::Variable"
        /\ \A n \in AllNames :
              UnusedDiagsFor(n) =
                  IF starts_with_underscore(n)
                  THEN 0
                  ELSE UnusedParametersNamed(n) + UnusedDeclaresNamed(n)

C11_Witness ==
    /\ last.op = "function"
    /\ Len(last.diag) = 1
    /\ \E i \in 1..Len(ResolvedFunction.body) :
          /\ ResolvedFunction.body[i].var \notin RecordedUsed
          /\ ResolvedFunction.body[i].site \in {"Bind", "Lambda"}
          /\ ~starts_with_underscore(ResolvedFunction.body[i].var.name)

(* C12: after the pass every binding site of the body (let with or without              *)
(* initializer, lambda parameter, at any depth) has unused_binding set exactly when its *)
(* variable was not recorded as used.                                                   *)
C12_UnusedFlagIffNotUsed ==
    last.op = "function" =>
        \A i \in 1..Len(ResolvedFunction.body) :
            ResolvedFunction.body[i].unused_binding
                <=> (ResolvedFunction.body[i].var \notin RecordedUsed)

C12_Witness ==
    /\ last.op = "function"
    /\ \E i, j \in 1..Len(ResolvedFunction.body) :
          /\ ResolvedFunction.body[i].unused_binding
          /\ ResolvedFunction.body[i].site \in {"Bind", "Lambda"}
          /\ ~ResolvedFunction.body[j].unused_binding
          /\ ResolvedFunction.body[j].var \in RecordedUsed

(* ------------------------------------------------------------------------------------ *)
(* Naming: the datatypes of a module                                                     *)
(* ------------------------------------------------------------------------------------ *)
DatatypeNames == {"A", "B", "C"}
DatatypeArities == {0, 1}
(* UniqueMap<DatatypeName, definition>: the definition is given by its number of type parameters *)
DatatypeMaps == UNION { [ns -> DatatypeArities] : ns \in SUBSET DatatypeNames }

EModuleDefinition(estructs, eenums) == [structs |-> estructs, enums |-> eenums]

struct_def(name, s) == [name |-> name, type_parameters |-> s, fields |-> "Defined"]
enum_def(name, e) == [name |-> name, type_parameters |-> e, variants |-> "Defined"]

module_keep_enums(mdef) ==
    [ structs |-> [name \in DOMAIN mdef.structs |-> struct_def(name, mdef.structs[name])],
      enums |-> [name \in DOMAIN mdef.enums |-> enum_def(name, mdef.enums[name])] ]

module(mdef) ==
    LET struct_names == DOMAIN mdef.structs
        enum_names == DOMAIN mdef.enums
        enum_struct_intersection == enum_names \cap struct_names
    IN  [ structs |-> [name \in struct_names |-> struct_def(name, mdef.structs[name])],
          enums |-> [name \in enum_names \ enum_struct_intersection |->
                        enum_def(name, mdef.enums[name])] ]

InitModule ==
    /\ ctl = << >>
    /\ context = ContextNew
    /\ diags = << >>
    /\ decl_log = << >>
    /\ last = NoOutcome
    /\ tcontext = TContextNew
    /\ \E estructs \in DatatypeMaps, eenums \in DatatypeMaps :
          ast = Some(EModuleDefinition(estructs, eenums))

(* module: the datatypes of one module definition are resolved *)
Module ==
    /\ ast # None /\ last = NoOutcome
    /\ last' = Outcome("module", "", ast, Some(module(ast[1])), << >>, EmptyMap)
    /\ UNCHANGED << ctl, context, diags, decl_log, tcontext, ast >>

NextModule == Module

SpecModule == InitModule /\ [][NextModule]_vars

(* C13: when a module declares a struct and an enum with the same name, resolution of   *)
(* the module completes and the resolved module has no enum named like one of its       *)
(* structs (and keeps every struct and every other enum).                               *)
C13_NoEnumNamedLikeAStruct ==
    last.op = "module" =>
        LET mdef == ast[1]
            n == last.ret[1]
        IN  /\ DOMAIN n.enums \cap DOMAIN n.structs = {}
            /\ DOMAIN n.structs = DOMAIN mdef.structs
            /\ DOMAIN n.enums = DOMAIN mdef.enums \ DOMAIN mdef.structs

C13_Witness ==
    /\ last.op = "module"
    /\ DOMAIN ast[1].enums \cap DOMAIN ast[1].structs # {}
    /\ DOMAIN last.ret[1].enums # {}

(* ------------------------------------------------------------------------------------ *)
(* Unbound types                                                                         *)
(* ------------------------------------------------------------------------------------ *)
UnboundCodes ==
    { "NameResolution::UnboundType", "NameResolution::UnboundModule",
      "NameResolution::UnboundModuleMember" }

(* C14: when the name of a type resolves to Unbound (unknown unqualified name, unknown  *)
(* module, unknown member of a known module) an error diagnostic has been recorded by   *)
(* the time the result is returned, and the type is the error type.                     *)
C14_UnboundHasDiagnostic ==
    (last.op = "type_" /\ ~HeadKnown) =>
        /\ resolve_type(context, Head_).rt = RTUnbound
        /\ last.ret = Some(NUnresolvedError)
        /\ Len(last.diag) = 1
        /\ last.diag[1].code \in UnboundCodes
        /\ diags # << >>

C14_Witness ==
    /\ last.op = "type_" /\ ~HeadKnown
    /\ Head_.ma = "ModuleAccess"
    /\ Head_.m \in DOMAIN context.scoped_types
    /\ last.diag = << Diag("NameResolution::UnboundModuleMember",
                           "Invalid module access. Unbound struct in module") >>

(* ------------------------------------------------------------------------------------ *)
(* Typing: datatype definitions (struct_def, enum_def)                                   *)
(* ------------------------------------------------------------------------------------ *)
Builtin(b) == EName(b)
ModuleType(m, n) == EModuleAccess(m, n)
NRef(mut, ty) == [k |-> "Ref", mut |-> mut, ty |-> ty]
NAnything == [k |-> "Anything"]

(* N::DatatypeTypeParameter *)
DatatypeTypeParameter(id, is_phantom) == [param |-> id, is_phantom |-> is_phantom]

(* The datatypes declared elsewhere in the program: P has a phantom parameter, Q a      *)
(* non-phantom one, R has none and no ability.                                          *)
DeclaredDatatypes ==
    [n \in {"P", "Q", "R"} |->
        CASE n = "P" -> [abilities |-> {"copy", "drop", "store"},
                         type_parameters |-> << DatatypeTypeParameter("X", TRUE) >>]
          [] n = "Q" -> [abilities |-> {"copy", "drop", "store"},
                         type_parameters |-> << DatatypeTypeParameter("X", FALSE) >>]
          [] OTHER   -> [abilities |-> {}, type_parameters |-> << >>]]

datatype_tparams(m, n) == DeclaredDatatypes[n].type_parameters

RECURSIVE has_unresolved_error_type(_)
has_unresolved_error_type(ty) ==
    CASE ty.k = "UnresolvedError" -> TRUE
      [] ty.k = "Ref" -> has_unresolved_error_type(ty.ty)
      [] ty.k = "Apply" -> \E i \in 1..Len(ty.tys) : has_unresolved_error_type(ty.tys[i])
      [] OTHER -> FALSE

Visit(param, pos) == [param |-> param, pos |-> pos]
MinLen(a, b) == IF Len(a) < Len(b) THEN Len(a) ELSE Len(b)

(* The calls of f made by visit_type_params, in order; pos is Phantom, FieldType or TypeArg *)
RECURSIVE visit_type_params_builtin_args_keep_pos(_, _)
RECURSIVE visit_type_args_builtin_args_keep_pos(_, _, _)
visit_type_args_builtin_args_keep_pos(ty_args, poss, i) ==
    IF i > MinLen(ty_args, poss)
    THEN << >>
    ELSE visit_type_params_builtin_args_keep_pos(ty_args[i], poss[i])
         \o visit_type_args_builtin_args_keep_pos(ty_args, poss, i + 1)

visit_type_params_builtin_args_keep_pos(ty, param_pos) ==
    CASE ty.k = "Param" -> << Visit(ty.tp, param_pos) >>
      [] ty.k = "Ref" -> visit_type_params_builtin_args_keep_pos(ty.ty, "TypeArg")
      [] ty.k = "Apply" ->
            IF ty.tn.ma = "Name"
            THEN visit_type_args_builtin_args_keep_pos(
                     ty.tys, [i \in 1..Len(ty.tys) |-> param_pos], 1)
            ELSE LET tparams == datatype_tparams(ty.tn.m, ty.tn.n)
                     poss == [i \in 1..Len(tparams) |->
                                 IF tparams[i].is_phantom THEN "Phantom" ELSE "TypeArg"]
                 IN  visit_type_args_builtin_args_keep_pos(ty.tys, poss, 1)
      [] OTHER -> << >>

RECURSIVE visit_type_params(_, _)
RECURSIVE visit_type_args(_, _, _)
visit_type_args(ty_args, poss, i) ==
    IF i > MinLen(ty_args, poss)
    THEN << >>
    ELSE visit_type_params(ty_args[i], poss[i]) \o visit_type_args(ty_args, poss, i + 1)

visit_type_params(ty, param_pos) ==
    CASE ty.k = "Param" -> << Visit(ty.tp, param_pos) >>
      [] ty.k = "Ref" -> visit_type_params(ty.ty, "TypeArg")
      [] ty.k = "Apply" ->
            IF ty.tn.ma = "Name"
            THEN visit_type_args(ty.tys, [i \in 1..Len(ty.tys) |-> "TypeArg"], 1)
            ELSE LET tparams == datatype_tparams(ty.tn.m, ty.tn.n)
                     poss == [i \in 1..Len(tparams) |->
                                 IF tparams[i].is_phantom THEN "Phantom" ELSE "TypeArg"]
                 IN  visit_type_args(ty.tys, poss, 1)
      [] OTHER -> << >>

invalid_phantom_use_error(non_phantom_pos, param) ==
    Diag("Declarations::InvalidPhantomUse",
         << IF non_phantom_pos = "FieldType"
            THEN "Phantom type parameter cannot be used as a field type"
            ELSE "Phantom type parameter cannot be used as an argument to a non-phantom parameter",
            param >>)

check_non_phantom_param_usage(param, param_usage) ==
    IF param_usage = None
    THEN << Diag("UnusedItem::StructTypeParam", << "Unused type parameter", param >>) >>
    ELSE IF param_usage = Some(FALSE)
    THEN << Diag("Declarations::InvalidNonPhantomUse",
                 << "The parameter is only used as an argument to phantom parameters", param >>) >>
    ELSE << >>

RECURSIVE VisitFields(_)
VisitFields(tys) ==
    IF tys = << >> THEN << >> ELSE visit_type_params(Head(tys), "FieldType") \o VisitFields(Tail(tys))

RECURSIVE PhantomUseErrors(_, _)
PhantomUseErrors(visits, phantom_params) ==
    IF visits = << >>
    THEN << >>
    ELSE (IF Head(visits).pos # "Phantom" /\ Head(visits).param \in phantom_params
          THEN << invalid_phantom_use_error(Head(visits).pos, Head(visits).param) >>
          ELSE << >>)
         \o PhantomUseErrors(Tail(visits), phantom_params)

NonPhantomUse(visits, param) ==
    IF \A i \in 1..Len(visits) : visits[i].param # param
    THEN None
    ELSE Some(\E i \in 1..Len(visits) : visits[i].param = param /\ visits[i].pos # "Phantom")

RECURSIVE NonPhantomParamUsage(_, _)
NonPhantomParamUsage(type_parameters, visits) ==
    IF type_parameters = << >>
    THEN << >>
    ELSE (IF ~Head(type_parameters).is_phantom
          THEN check_non_phantom_param_usage(Head(type_parameters).param,
                                             NonPhantomUse(visits, Head(type_parameters).param))
          ELSE << >>)
         \o NonPhantomParamUsage(Tail(type_parameters), visits)

check_type_params_usage(type_parameters, field_tys) ==
    IF \E i \in 1..Len(field_tys) : has_unresolved_error_type(field_tys[i])
    THEN << >>
    ELSE LET phantom_params == { type_parameters[i].param :
                                   i \in { j \in 1..Len(type_parameters) : type_parameters[j].is_phantom } }
             visits == VisitFields(field_tys)
         IN  PhantomUseErrors(visits, phantom_params)
             \o NonPhantomParamUsage(type_parameters, visits)

check_variant_type_params_usage(type_parameters, field_tys) ==
    IF \E i \in 1..Len(field_tys) : has_unresolved_error_type(field_tys[i])
    THEN << >>
    ELSE LET phantom_params == { type_parameters[i].param :
                                   i \in { j \in 1..Len(type_parameters) : type_parameters[j].is_phantom } }
             visits == VisitFields(field_tys)
         IN  PhantomUseErrors(visits, phantom_params)
             \o NonPhantomParamUsage(type_parameters, visits)

(* Abilities and the constraints on field types                                          *)
AbilityOrder == << "copy", "drop", "store", "key" >>
requires(ability) == IF ability = "key" THEN "store" ELSE ability

(* The declared abilities in the order an AbilitySet is iterated *)
AbilitySeq(abilities) ==
    LET In(a) == a \in abilities IN SelectSeq(AbilityOrder, In)

make_tparam_subst(tps, args) ==
    [p \in { tps[i] : i \in 1..Len(tps) } |->
        args[CHOOSE i \in 1..Len(tps) : tps[i] = p]]

RECURSIVE subst_tparams(_, _)
subst_tparams(subst, ty) ==
    CASE ty.k = "Param" -> IF ty.tp \in DOMAIN subst THEN subst[ty.tp] ELSE ty
      [] ty.k = "Ref" -> NRef(ty.mut, subst_tparams(subst, ty.ty))
      [] ty.k = "Apply" ->
            NApply(ty.tn, [i \in 1..Len(ty.tys) |-> subst_tparams(subst, ty.tys[i])])
      [] OTHER -> ty

RECURSIVE has_ability(_, _)
has_ability(ty, ability) ==
    CASE ty.k \in {"Anything", "UnresolvedError"} -> TRUE
      [] ty.k = "Param" -> FALSE
      [] ty.k = "Ref" -> ability = "drop" \/ (ability = "copy" /\ ~ty.mut)
      [] ty.k = "Apply" ->
            IF ty.tn.ma = "Name"
            THEN /\ ability \in {"copy", "drop", "store"}
                 /\ \A i \in 1..Len(ty.tys) : has_ability(ty.tys[i], ability)
            ELSE LET d == DeclaredDatatypes[ty.tn.n]
                 IN  /\ ability \in d.abilities
                     /\ \A i \in 1..MinLen(ty.tys, d.type_parameters) :
                           d.type_parameters[i].is_phantom
                           \/ has_ability(ty.tys[i], requires(ability))
      [] OTHER -> FALSE

(* add_base_type_constraint, solved: a field is a single non-reference type *)
base_type_constraint(idx, ty) ==
    IF ty.k \in {"Ref", "Unit"}
    THEN << Diag("TypeSafety::ExpectedBaseType", << "Invalid field type", idx >>) >>
    ELSE << >>

(* add_ability_constraint, solved: one diagnostic for an unsatisfied constraint *)
ability_constraint(idx, declared_ability, ty, required) ==
    IF has_ability(ty, required)
    THEN << >>
    ELSE << Diag("AbilitySafety::Constraint",
                 << "Invalid field type. The struct was declared with the ability so all fields require the ability",
                    idx, declared_ability, required >>) >>

RECURSIVE BaseTypeConstraints(_, _)
BaseTypeConstraints(field_tys, i) ==
    IF i > Len(field_tys)
    THEN << >>
    ELSE base_type_constraint(i, field_tys[i]) \o BaseTypeConstraints(field_tys, i + 1)

RECURSIVE FieldAbilityConstraints(_, _, _)
FieldAbilityConstraints(idx, subst_ty, declared) ==
    IF declared = << >>
    THEN << >>
    ELSE ability_constraint(idx, Head(declared), subst_ty, requires(Head(declared)))
         \o FieldAbilityConstraints(idx, subst_ty, Tail(declared))

RECURSIVE field_ability_constraints_uninstantiated(_, _, _, _)
field_ability_constraints_uninstantiated(field_tys, abilities, type_parameters, i) ==
    IF i > Len(field_tys)
    THEN << >>
    ELSE FieldAbilityConstraints(i, field_tys[i], AbilitySeq(abilities))
         \o field_ability_constraints_uninstantiated(field_tys, abilities, type_parameters, i + 1)

(* The second loop of struct_def and variant_def: the declared type parameters become   *)
(* Anything and every declared ability puts its requirement on every field.             *)
RECURSIVE field_ability_constraints(_, _, _, _)
field_ability_constraints(field_tys, abilities, type_parameters, i) ==
    IF i > Len(field_tys)
    THEN << >>
    ELSE LET tps == [j \in 1..Len(type_parameters) |-> type_parameters[j].param]
             tparam_subst == make_tparam_subst(tps, [j \in 1..Len(tps) |-> NAnything])
             subst_ty == subst_tparams(tparam_subst, field_tys[i])
         IN  FieldAbilityConstraints(i, subst_ty, AbilitySeq(abilities))
             \o field_ability_constraints(field_tys, abilities, type_parameters, i + 1)

NStructDefinition(abilities, type_parameters, fields) ==
    [abilities |-> abilities, type_parameters |-> type_parameters, fields |-> fields]
NEnumDefinition(abilities, type_parameters, variants) ==
    [abilities |-> abilities, type_parameters |-> type_parameters, variants |-> variants]

(* fields: None for a native struct or an empty variant, Some(field types) otherwise *)
typing_struct_def(s) ==
    IF s.fields = None
    THEN << >>
    ELSE BaseTypeConstraints(s.fields[1], 1)
         \o field_ability_constraints(s.fields[1], s.abilities, s.type_parameters, 1)
         \o check_type_params_usage(s.type_parameters, s.fields[1])

variant_def(enum_abilities, enum_tparams, v) ==
    IF v = None
    THEN [field_types |-> << >>, diag |-> << >>]
    ELSE [field_types |-> v[1],
          diag |-> BaseTypeConstraints(v[1], 1)
                   \o field_ability_constraints(v[1], enum_abilities, enum_tparams, 1)]

RECURSIVE VariantDefs(_, _, _)
VariantDefs(enum_abilities, enum_tparams, variants) ==
    IF variants = << >>
    THEN [field_types |-> << >>, diag |-> << >>]
    ELSE LET v == variant_def(enum_abilities, enum_tparams, Head(variants))
             rest == VariantDefs(enum_abilities, enum_tparams, Tail(variants))
         IN  [field_types |-> v.field_types \o rest.field_types, diag |-> v.diag \o rest.diag]

typing_enum_def(enum_) ==
    LET vs == VariantDefs(enum_.abilities, enum_.type_parameters, enum_.variants)
    IN  vs.diag \o check_variant_type_params_usage(enum_.type_parameters, vs.field_types)

(* The definitions handed to the pass *)
TypeLeaves ==
    { NParam("T"), NParam("U"), NUnresolvedError,
      NApply(Builtin("u64"), << >>), NApply(ModuleType("m", "R"), << >>) }
Wrap(S) ==
    { NRef(FALSE, t) : t \in S } \cup { NApply(Builtin("vector"), << t >>) : t \in S }
    \cup { NApply(ModuleType("m", "P"), << t >>) : t \in S }
    \cup { NApply(ModuleType("m", "Q"), << t >>) : t \in S }
FieldTypes == TypeLeaves \cup Wrap(TypeLeaves) \cup Wrap(Wrap({ NParam("T"), NUnresolvedError }))
VariantFieldTypes == TypeLeaves \cup Wrap(TypeLeaves)
FieldLists == { << >> } \cup { << t >> : t \in FieldTypes } \cup (FieldTypes \X FieldTypes)
StructFields == { None } \cup { Some(fs) : fs \in FieldLists }
VariantFields == { None } \cup { Some(<< t >>) : t \in VariantFieldTypes }
Variants == { << v >> : v \in VariantFields } \cup (VariantFields \X VariantFields)
DeclaredAbilities == { {}, {"drop"}, {"key"}, {"copy", "drop"} }
TypeParameters ==
    { << DatatypeTypeParameter("T", pt), DatatypeTypeParameter("U", pu) >> : pt, pu \in BOOLEAN }

InitDatatypes ==
    /\ ctl = << >>
    /\ context = ContextNew
    /\ diags = << >>
    /\ decl_log = << >>
    /\ last = NoOutcome
    /\ tcontext = TContextNew
    /\ \E abilities \in DeclaredAbilities, tps \in TypeParameters :
          \/ \E fields \in StructFields :
                ast = Some([k |-> "struct", def |-> NStructDefinition(abilities, tps, fields)])
          \/ \E variants \in Variants :
                ast = Some([k |-> "enum", def |-> NEnumDefinition(abilities, tps, variants)])

StructDef ==
    /\ ast # None /\ ast[1].k = "struct" /\ last = NoOutcome
    /\ LET d == typing_struct_def(ast[1].def)
       IN  /\ diags' = diags \o d
           /\ last' = Outcome("struct_def", "", ast, None, d, EmptyMap)
    /\ UNCHANGED << ctl, context, decl_log, tcontext, ast >>

EnumDef ==
    /\ ast # None /\ ast[1].k = "enum" /\ last = NoOutcome
    /\ LET d == typing_enum_def(ast[1].def)
       IN  /\ diags' = diags \o d
           /\ last' = Outcome("enum_def", "", ast, None, d, EmptyMap)
    /\ UNCHANGED << ctl, context, decl_log, tcontext, ast >>

NextDatatypes == StructDef \/ EnumDef

SpecDatatypes == InitDatatypes /\ [][NextDatatypes]_vars

(* ------------------------------------------------------------------------------------ *)
(* Phantom parameters and field abilities                                                *)
(* ------------------------------------------------------------------------------------ *)
RECURSIVE SumSeq(_)
SumSeq(ns) == IF ns = << >> THEN 0 ELSE Head(ns) + SumSeq(Tail(ns))

RECURSIVE ConcatAll(_)
ConcatAll(ss) == IF ss = << >> THEN << >> ELSE Head(ss) \o ConcatAll(Tail(ss))

DatatypeChecked == last.op \in {"struct_def", "enum_def"}
CheckedDef == ast[1].def
(* the field types of the struct, or of all the variants of the enum *)
CheckedFields ==
    IF ast[1].k = "struct"
    THEN (IF CheckedDef.fields = None THEN << >> ELSE CheckedDef.fields[1])
    ELSE ConcatAll([i \in 1..Len(CheckedDef.variants) |->
                       IF CheckedDef.variants[i] = None THEN << >> ELSE CheckedDef.variants[i][1]])
PhantomDeclared ==
    { CheckedDef.type_parameters[i].param :
        i \in { j \in 1..Len(CheckedDef.type_parameters) : CheckedDef.type_parameters[j].is_phantom } }

(* Appearances of a phantom-declared parameter in a non-phantom position of ty: as the  *)
(* field type itself, under a reference, as an argument of a builtin type or of a       *)
(* non-phantom parameter of a datatype.                                                 *)
RECURSIVE NonPhantomAppearances(_, _)
NonPhantomAppearances(ty, in_phantom_position) ==
    CASE ty.k = "Param" ->
            IF ty.tp \in PhantomDeclared /\ ~in_phantom_position THEN 1 ELSE 0
      [] ty.k = "Ref" -> NonPhantomAppearances(ty.ty, FALSE)
      [] ty.k = "Apply" ->
            SumSeq([i \in 1..Len(ty.tys) |->
                NonPhantomAppearances(
                    ty.tys[i],
                    /\ ty.tn.ma = "ModuleAccess"
                    /\ DeclaredDatatypes[ty.tn.n].type_parameters[i].is_phantom)])
      [] OTHER -> 0

AllNonPhantomAppearances ==
    SumSeq([i \in 1..Len(CheckedFields) |-> NonPhantomAppearances(CheckedFields[i], FALSE)])
PhantomMisuseDiags ==
    LET Is(d) == d.code = "Declarations::InvalidPhantomUse" IN Count(last.diag, Is)
SomeFieldUnresolved ==
    \E i \in 1..Len(CheckedFields) : has_unresolved_error_type(CheckedFields[i])

(* C15, as stated: every appearance of a phantom-declared parameter in a non-phantom    *)
(* position of the field types of a struct or of an enum's variants produces one        *)
(* phantom-misuse diagnostic, and appearances in phantom positions produce none.        *)
C15_EveryNonPhantomAppearanceReported ==
    DatatypeChecked => PhantomMisuseDiags = AllNonPhantomAppearances

(* C15, amended: that holds when no field type of the datatype contains an unresolved   *)
(* error type; when one does, no phantom-misuse diagnostic is produced at all.          *)
C15_AppearancesReportedUnlessUnresolved ==
    DatatypeChecked =>
        PhantomMisuseDiags = IF SomeFieldUnresolved THEN 0 ELSE AllNonPhantomAppearances

C15_Witness ==
    /\ last.op = "struct_def"
    /\ CheckedDef.type_parameters[1].is_phantom
    /\ CheckedDef.fields = Some(<< NParam("T"), NApply(ModuleType("m", "P"), << NParam("T") >>) >>)
    /\ PhantomMisuseDiags = 1

(* The field type with the datatype's own type parameters replaced by Anything *)
RECURSIVE Erased(_)
Erased(ty) ==
    CASE ty.k = "Param" -> NAnything
      [] ty.k = "Ref" -> NRef(ty.mut, Erased(ty.ty))
      [] ty.k = "Apply" -> NApply(ty.tn, [i \in 1..Len(ty.tys) |-> Erased(ty.tys[i])])
      [] OTHER -> ty
AbilityDiags ==
    LET Is(d) == d.code = "AbilitySafety::Constraint" IN Count(last.diag, Is)
LackingPairs ==
    SumSeq([i \in 1..Len(CheckedFields) |->
        Cardinality({ a \in CheckedDef.abilities : ~has_ability(Erased(CheckedFields[i]), requires(a)) })])

(* C16: for a struct or enum declared with an ability A, each field (of the struct or   *)
(* of any variant) whose type, with the datatype's own type parameters replaced by      *)
(* Anything, lacks the ability A requires of fields causes an ability diagnostic, and   *)
(* a field whose type has it causes none.                                               *)
C16_FieldLackingAbilityReported ==
    DatatypeChecked =>
        /\ AbilityDiags = LackingPairs
        /\ ast[1].k = "struct" =>
              \A i \in 1..Len(CheckedFields) : \A a \in CheckedDef.abilities :
                  (\E j \in 1..Len(last.diag) :
                        /\ last.diag[j].code = "AbilitySafety::Constraint"
                        /\ last.diag[j].msg[2] = i /\ last.diag[j].msg[3] = a)
                  <=> ~has_ability(Erased(CheckedFields[i]), requires(a))

C16_Witness ==
    /\ last.op = "struct_def"
    /\ CheckedDef.abilities = {"key"}
    /\ CheckedDef.fields = Some(<< NParam("T"), NApply(ModuleType("m", "R"), << >>) >>)
    /\ AbilityDiags = 1

(* ------------------------------------------------------------------------------------ *)
(* Typing: subtype and join                                                              *)
(* ------------------------------------------------------------------------------------ *)
TVar(id) == [k |-> "Var", id |-> id]
TU64 == NApply(Builtin("u64"), << >>)
TBool == NApply(Builtin("bool"), << >>)
error_type == NUnresolvedError

RECURSIVE ready_tvars(_, _)
ready_tvars(subst, t) ==
    IF t.k = "Var" /\ t.id \in DOMAIN subst.tvars
    THEN ready_tvars(subst, subst.tvars[t.id])
    ELSE t

Ok(subst, ty) == [ok |-> TRUE, subst |-> subst, ty |-> ty, err |-> None]
Err(kind, t1, t2) == [ok |-> FALSE, subst |-> None, ty |-> None, err |-> Some(<< kind, t1, t2 >>)]

IsNum(t) == t = TU64

(* A free variable meets a type: a variable that stands for a number takes a number only *)
bind_tvar(subst, id, other, given, expected) ==
    IF other.k = "Var"
    THEN Ok([tvars |-> MapInsert(subst.tvars, id, other),
             num_vars |-> IF id \in subst.num_vars \/ other.id \in subst.num_vars
                          THEN subst.num_vars \cup {id, other.id}
                          ELSE subst.num_vars],
            other)
    ELSE IF id \in subst.num_vars /\ ~IsNum(other)
    THEN Err("Incompatible", given, expected)
    ELSE Ok([subst EXCEPT !.tvars = MapInsert(@, id, other)], other)

RECURSIVE core_unify(_, _, _, _)

(* the type arguments of two applications of one type, left to right, each pair with   *)
(* the substitution the pairs before it left                                            *)
RECURSIVE core_unify_tys(_, _, _, _, _)
unified_before(ty, rest) ==
    IF ~rest.ok THEN rest ELSE Ok(rest.subst, << ty >> \o rest.ty)

unify_from(is_join, tys1, tys2, i, r) ==
    IF ~r.ok THEN r ELSE unified_before(r.ty, core_unify_tys(r.subst, is_join, tys1, tys2, i + 1))

core_unify_tys(subst, is_join, tys1, tys2, i) ==
    IF i > Len(tys1)
    THEN Ok(subst, << >>)
    ELSE unify_from(is_join, tys1, tys2, i,
                    core_unify(subst, is_join, ready_tvars(subst, tys1[i]),
                               ready_tvars(subst, tys2[i])))

unified_application(t1, t2, r) ==
    IF r.ok THEN Ok(r.subst, NApply(t1.tn, r.ty)) ELSE Err("Incompatible", t1, t2)

(* core::subtype (is_join = FALSE) and core::join (is_join = TRUE) on readied types *)
core_unify(subst, is_join, t1, t2) ==
    CASE t1.k = "Anything" -> Ok(subst, t2)
      [] t2.k = "Anything" -> Ok(subst, t1)
      [] t1.k = "UnresolvedError" \/ t2.k = "UnresolvedError" -> Ok(subst, NUnresolvedError)
      [] t1.k = "Var" /\ t2.k = "Var" /\ t1.id = t2.id -> Ok(subst, t1)
      [] t1.k = "Var" -> bind_tvar(subst, t1.id, t2, t1, t2)
      [] t2.k = "Var" -> bind_tvar(subst, t2.id, t1, t1, t2)
      [] t1.k = "Ref" /\ t2.k = "Ref" ->
            IF t1.ty # t2.ty
            THEN Err("Incompatible", t1, t2)
            ELSE IF is_join
            THEN Ok(subst, NRef(t1.mut /\ t2.mut, t1.ty))
            ELSE IF ~t1.mut /\ t2.mut
            THEN Err("SubtypeError", t1, t2)
            ELSE Ok(subst, t2)
      [] t1.k = "Apply" /\ t2.k = "Apply" /\ t1.tn = t2.tn /\ t1.tys # << >>
            /\ Len(t1.tys) = Len(t2.tys) ->
            unified_application(t1, t2, core_unify_tys(subst, is_join, t1.tys, t2.tys, 1))
      [] OTHER -> IF t1 = t2 THEN Ok(subst, t1) ELSE Err("Incompatible", t1, t2)

core_subtype(subst, lhs, rhs) == core_unify(subst, FALSE, lhs, rhs)
core_join(subst, t1, t2) == core_unify(subst, TRUE, t1, t2)

typing_error(from_subtype, msg, e) ==
    IF e[1] = "SubtypeError"
    THEN Diag("TypeSafety::SubtypeError", << msg, "Given", e[2], "Expected", e[3] >>)
    ELSE Diag("TypeSafety::JoinError",
              << msg, IF from_subtype THEN "Given" ELSE "Found", e[2],
                      IF from_subtype THEN "Expected" ELSE "Found", e[3] >>)

subtype_impl_subst_not_restored(tc, msg, pre_lhs, pre_rhs) ==
    LET subst == tc.subst
        lhs == ready_tvars(subst, pre_lhs)
        rhs == ready_tvars(subst, pre_rhs)
        r == core_subtype(subst, lhs, rhs)
    IN  IF ~r.ok
        THEN [ctx |-> [tc EXCEPT !.subst = SubstEmpty], ok |-> FALSE, ty |-> rhs,
              diag |-> << typing_error(TRUE, msg, r.err[1]) >>]
        ELSE [ctx |-> [tc EXCEPT !.subst = r.subst], ok |-> TRUE, ty |-> r.ty, diag |-> << >>]

(* Result<Type, Type>: ok tells Ok from Err. The substitution is taken out of the       *)
(* context, leaving Subst::empty(), and a copy goes to core::subtype; on Err the one    *)
(* taken out is put back.                                                               *)
(* r is what core::subtype returned for the copy of subst                               *)
subtype_impl_match(tc, subst, msg, rhs, r) ==
    IF ~r.ok
    THEN [ctx |-> [tc EXCEPT !.subst = subst], ok |-> FALSE, ty |-> rhs,
          diag |-> << typing_error(TRUE, msg, r.err[1]) >>]
    ELSE [ctx |-> [tc EXCEPT !.subst = r.subst], ok |-> TRUE, ty |-> r.ty, diag |-> << >>]

subtype_impl(tc, msg, pre_lhs, pre_rhs) ==
    LET subst == tc.subst
        lhs == ready_tvars(subst, pre_lhs)
        rhs == ready_tvars(subst, pre_rhs)
    IN  subtype_impl_match(tc, subst, msg, rhs, core_subtype(subst, lhs, rhs))

subtype_returns_given(tc, msg, pre_lhs, pre_rhs) ==
    LET r == subtype_impl(tc, msg, pre_lhs, pre_rhs)
    IN  [ctx |-> r.ctx, ty |-> IF r.ok THEN r.ty ELSE ready_tvars(tc.subst, pre_lhs),
         diag |-> r.diag]

(* match subtype_impl(..) { Err(rhs) => rhs, Ok(t) => t } *)
subtype_match(r) == [ctx |-> r.ctx, ty |-> r.ty, diag |-> r.diag]

subtype(tc, msg, pre_lhs, pre_rhs) ==
    subtype_match(subtype_impl(tc, msg, pre_lhs, pre_rhs))

(* r is what core::join returned for the copy of subst *)
join_opt_match(tc, subst, msg, r) ==
    IF ~r.ok
    THEN [ctx |-> [tc EXCEPT !.subst = subst], ty |-> None,
          diag |-> << typing_error(FALSE, msg, r.err[1]) >>]
    ELSE [ctx |-> [tc EXCEPT !.subst = r.subst], ty |-> Some(r.ty), diag |-> << >>]

join_opt(tc, msg, pre_t1, pre_t2) ==
    LET subst == tc.subst
        t1 == ready_tvars(subst, pre_t1)
        t2 == ready_tvars(subst, pre_t2)
    IN  join_opt_match(tc, subst, msg, core_join(subst, t1, t2))

join_returns_first(tc, msg, pre_t1, pre_t2) ==
    LET r == join_opt(tc, msg, pre_t1, pre_t2)
    IN  [ctx |-> r.ctx,
         ty |-> IF r.ty = None THEN ready_tvars(tc.subst, pre_t1) ELSE r.ty[1],
         diag |-> r.diag]

(* match join_opt(..) { None => error type, Some(ty) => ty } *)
join_match(r) ==
    [ctx |-> r.ctx, ty |-> IF r.ty = None THEN error_type ELSE r.ty[1], diag |-> r.diag]

join(tc, msg, pre_t1, pre_t2) ==
    join_match(join_opt(tc, msg, pre_t1, pre_t2))

(* The types of the operands: two variables, the second standing for a number literal *)
OperandTypes ==
    { TU64, TBool, NRef(FALSE, TU64), NRef(TRUE, TU64), TVar(1), TVar(2),
      NUnresolvedError, NAnything }

BranchTypes == { TU64, TBool, NRef(FALSE, TU64), NRef(TRUE, TU64), TVar(1), TVar(2) }

(* The substitutions met: variable 1 free or bound, variable 2 a number literal's, free *)
(* or bound to its integer type                                                         *)
Substs ==
    { [tvars |-> m, num_vars |-> {2}] :
        m \in { EmptyMap }
              \cup { [v \in {1} |-> t] : t \in {TU64, TBool, NRef(FALSE, TU64), NRef(TRUE, TU64), TVar(2)} }
              \cup { [v \in {2} |-> TU64] }
              \cup { [v \in {1, 2} |-> TU64] } }

InitSubtyping ==
    /\ ctl = << >>
    /\ context = ContextNew
    /\ diags = << >>
    /\ decl_log = << >>
    /\ last = NoOutcome
    /\ \E subst \in Substs : tcontext = [TContextNew EXCEPT !.subst = subst]
    /\ \/ \E el_ty \in OperandTypes, rhs \in OperandTypes :
             ast = Some([k |-> "Annotate", tys |-> << el_ty, rhs >>])
       \/ \E eb_ty \in {TBool, TU64}, et_ty \in BranchTypes, ef_ty \in BranchTypes :
             ast = Some([k |-> "IfElse", tys |-> << eb_ty, et_ty, ef_ty >>])

(* exp, Annotate(e, ty): the type of e against the annotation *)
Annotate(el_ty, rhs) ==
    /\ last = NoOutcome
    /\ LET r == subtype(tcontext, "Invalid type annotation", el_ty, rhs)
       IN  /\ CanReport(r.diag)
           /\ tcontext' = r.ctx
           /\ diags' = diags \o r.diag
           /\ last' = Outcome("subtype", "", Some(<< el_ty, rhs >>), Some(r.ty), r.diag,
                              tcontext.subst)
    /\ UNCHANGED << ctl, context, decl_log, ast >>

(* exp, IfElse(b, t, f): the condition against bool, then the join of the branches *)
IfElse(eb_ty, et_ty, ef_ty) ==
    /\ last = NoOutcome
    /\ LET c == subtype(tcontext, "Invalid if condition", eb_ty, TBool)
           j == join(c.ctx, "Incompatible branches", et_ty, ef_ty)
       IN  /\ CanReport(c.diag \o j.diag)
           /\ tcontext' = j.ctx
           /\ diags' = diags \o c.diag \o j.diag
           /\ last' = Outcome("join", "", Some(<< et_ty, ef_ty >>), Some(j.ty), j.diag,
                              c.ctx.subst)
    /\ UNCHANGED << ctl, context, decl_log, ast >>

NextSubtyping ==
    \/ ast # None /\ ast[1].k = "Annotate" /\ Annotate(ast[1].tys[1], ast[1].tys[2])
    \/ ast # None /\ ast[1].k = "IfElse"
          /\ IfElse(ast[1].tys[1], ast[1].tys[2], ast[1].tys[3])

SpecSubtyping == InitSubtyping /\ [][NextSubtyping]_vars

(* ------------------------------------------------------------------------------------ *)
(* Failure of subtype and of join                                                        *)
(* ------------------------------------------------------------------------------------ *)
SubstBefore == last.saved
GivenSide == ready_tvars(SubstBefore, last.name[1][1])
ExpectedSide == ready_tvars(SubstBefore, last.name[1][2])
(* a reference that is not mutable where a mutable one is expected, or two types that   *)
(* differ and are neither a free variable nor a sentinel                               *)
Rigid(t) == t.k \in {"Apply", "Ref"}
NumberMismatch(a, b) == a.k = "Var" /\ a.id \in SubstBefore.num_vars /\ Rigid(b) /\ b # TU64
SubtypeFails ==
    \/ Rigid(GivenSide) /\ Rigid(ExpectedSide) /\ GivenSide # ExpectedSide
         /\ ~(GivenSide = NRef(TRUE, TU64) /\ ExpectedSide = NRef(FALSE, TU64))
    \/ NumberMismatch(GivenSide, ExpectedSide)
    \/ NumberMismatch(ExpectedSide, GivenSide)
JoinFails ==
    \/ Rigid(GivenSide) /\ Rigid(ExpectedSide) /\ GivenSide # ExpectedSide
         /\ ~(GivenSide.k = "Ref" /\ ExpectedSide.k = "Ref")
    \/ NumberMismatch(GivenSide, ExpectedSide)
    \/ NumberMismatch(ExpectedSide, GivenSide)

(* C17: when subtype(lhs, rhs) fails a diagnostic is recorded, the type returned is the *)
(* expected side and checking goes on: the substitution is the one before the call.     *)
C17_SubtypeFailureReturnsExpected ==
    (last.op = "subtype" /\ SubtypeFails) =>
        /\ Len(last.diag) = 1
        /\ last.diag[1].code \in {"TypeSafety::SubtypeError", "TypeSafety::JoinError"}
        /\ diags # << >>
        /\ last.ret = Some(ExpectedSide)
        /\ tcontext.subst = SubstBefore

C17_Witness ==
    /\ last.op = "subtype" /\ SubtypeFails
    /\ GivenSide = NRef(FALSE, TU64) /\ ExpectedSide = NRef(TRUE, TU64)
    /\ last.ret = Some(NRef(TRUE, TU64))

(* C18: when join(t1, t2) fails a diagnostic is recorded and the type is the error      *)
(* sentinel, neither input; so an if/else with an integer and a bool branch is typed    *)
(* as the error sentinel with a join-failure diagnostic.                                *)
C18_JoinFailureIsErrorType ==
    (last.op = "join" /\ JoinFails) =>
        /\ Len(last.diag) = 1
        /\ last.diag[1].code = "TypeSafety::JoinError"
        /\ last.diag[1].msg[1] = "Incompatible branches"
        /\ diags # << >>
        /\ last.ret = Some(NUnresolvedError)
        /\ tcontext.subst = SubstBefore

C18_Witness ==
    /\ last.op = "join" /\ JoinFails
    /\ last.name[1] = << TVar(2), TBool >>
    /\ 2 \notin DOMAIN SubstBefore.tvars
    /\ last.ret = Some(NUnresolvedError)

(* ------------------------------------------------------------------------------------ *)
(* Typing: dotted field-access chains and method-call receivers                          *)
(* ------------------------------------------------------------------------------------ *)
MaxChain == 3

(* N::ExpDotted_ *)
N_Exp(e) == [d |-> "Exp", e |-> e]
N_Dot(lhs, field) == [d |-> "Dot", lhs |-> lhs, field |-> field]

(* ExpDotted_ *)
ExpDotted_Exp(e) == [d |-> "Exp", e |-> e]
ExpDotted_TmpBorrow(e, ty) == [d |-> "TmpBorrow", e |-> e, ty |-> ty]
ExpDotted_Dot(lhs, field, ty) == [d |-> "Dot", lhs |-> lhs, field |-> field, ty |-> ty]

(* T::Exp and the T::UnannotatedExp_ met here *)
TExp(ty, e_) == [ty |-> ty, exp |-> e_]
TE_Use(v) == [e |-> "Use", v |-> v]
TE_Constant(c) == [e |-> "Constant", c |-> c]
TE_ModuleCall(f) == [e |-> "ModuleCall", f |-> f]
TE_BorrowLocal(mut, v) == [e |-> "BorrowLocal", mut |-> mut, v |-> v]
TE_TempBorrow(mut, inner) == [e |-> "TempBorrow", mut |-> mut, inner |-> inner]
TE_Borrow(mut, inner, field) == [e |-> "Borrow", mut |-> mut, inner |-> inner, field |-> field]
TE_Dereference(inner) == [e |-> "Dereference", inner |-> inner]
TE_UnresolvedError == [e |-> "UnresolvedError"]

(* A local and whether it was declared 'mut' *)
Local(name, mut) == [name |-> name, mut |-> mut]

(* The structs of the current module: P { f: R }, R { f: Q<u64> }, Q<X> { f: X } *)
StructP == NApply(ModuleType("m", "P"), << TU64 >>)
StructR == NApply(ModuleType("m", "R"), << >>)
StructQ == NApply(ModuleType("m", "Q"), << TU64 >>)
DeclaredFields ==
    [n \in {"P", "Q", "R"} |->
        CASE n = "P" -> [f \in {"f"} |-> StructR]
          [] n = "R" -> [f \in {"f"} |-> StructQ]
          [] OTHER   -> [f \in {"f"} |-> NParam("X")]]

(* core::unfold_type: the type behind bound variables, Anything for a free one *)
unfold_type(subst, ty) ==
    LET t == ready_tvars(subst, ty)
    IN  IF t.k = "Var" /\ t.id \notin subst.num_vars THEN NAnything ELSE t

(* core::make_struct_field_type: the declared type of the field at the type arguments *)
make_struct_field_type(n, targs, field) ==
    IF field \notin DOMAIN DeclaredFields[n]
    THEN [ty |-> error_type,
          diag |-> << Diag("NameResolution::UnboundField", << "Unbound field", field, n >>) >>]
    ELSE LET tps == datatype_tparams("m", n)
             ids == [i \in 1..Len(tps) |-> tps[i].param]
         IN  [ty |-> subst_tparams(make_tparam_subst(ids, targs), DeclaredFields[n][field]),
              diag |-> << >>]

resolve_field(subst, ty, field) ==
    LET t == ready_tvars(subst, ty)
    IN  CASE t.k = "UnresolvedError" -> [ty |-> error_type, diag |-> << >>]
          [] t.k = "Anything" \/ (t.k = "Var" /\ t.id \notin subst.num_vars) ->
                [ty |-> error_type,
                 diag |-> << Diag("TypeSafety::UninferredType", << "Unbound field", field >>) >>]
          [] t.k = "Apply" /\ t.tn.ma = "ModuleAccess" ->
                make_struct_field_type(t.tn.n, t.tys, field)
          [] OTHER ->
                [ty |-> error_type,
                 diag |-> << Diag("TypeSafety::ExpectedSpecificType",
                                  << "Unbound field", field >>) >>]

warn_on_constant_borrow(e) ==
    IF e.exp.e = "Constant"
    THEN << Diag("TypeSafety::ImplicitConstantCopy",
                 << "This access will make a new copy of the constant" >>) >>
    ELSE << >>

(* add_single_type_constraint, solved: unit is not a single type *)
single_type_constraint(verb, ty) ==
    IF ty.k = "Unit"
    THEN << Diag("TypeSafety::ExpectedSingleType", << "Invalid", verb >>) >>
    ELSE << >>

(* exp_dotted on a chain whose first expression is already typed: the chain, the type  *)
(* of its last access and the diagnostics                                                *)
RECURSIVE exp_dotted(_, _, _)
exp_dotted(subst, constraint_verb, ndot) ==
    IF ndot.d = "Exp"
    THEN LET e == ndot.e
             unfolded == unfold_type(subst, e.ty)
             borrow_needed == unfolded.k # "Ref"
             ty == IF borrow_needed THEN e.ty ELSE unfolded.ty
         IN  [edot |-> IF borrow_needed THEN ExpDotted_TmpBorrow(e, ty) ELSE ExpDotted_Exp(e),
              ty |-> ty,
              diag |-> warn_on_constant_borrow(e)
                       \o (IF borrow_needed /\ constraint_verb # None
                           THEN single_type_constraint(constraint_verb[1], ty)
                           ELSE << >>)]
    ELSE LET l == exp_dotted(subst, Some("dot access"), ndot.lhs)
             r == resolve_field(subst, l.ty, ndot.field)
         IN  [edot |-> ExpDotted_Dot(l.edot, ndot.field, r.ty),
              ty |-> r.ty,
              diag |-> l.diag \o r.diag]

(* check_mutability: the local is marked as used mutably; one that was not declared    *)
(* 'mut' is an error                                                                     *)
check_mutability(usage, v) ==
    [used |-> {v.name},
     diag |-> IF v.mut
              THEN << >>
              ELSE << Diag("TypeSafety::InvalidImmVariableUsage", << "Invalid", usage, v.name >>) >>]

invalid_mutable_borrow_unchecked(lhs_mut, mut_) == << >>

(* exp_dotted_to_borrow, Dot: lhs is immutable and current borrow is mutable *)
invalid_mutable_borrow(lhs_mut, mut_) ==
    IF ~lhs_mut /\ mut_
    THEN << Diag("ReferenceSafety::RefTrans",
                 << "Invalid mutable borrow from an immutable reference" >>) >>
    ELSE << >>

RECURSIVE exp_dotted_to_borrow(_, _, _)
exp_dotted_to_borrow(subst, mut_, dot) ==
    CASE dot.d = "Exp" -> [e |-> dot.e, diag |-> << >>, used |-> {}]
      [] dot.d = "TmpBorrow" ->
            LET eb == dot.e
                is_use == eb.exp.e = "Use"
                chk == IF is_use /\ mut_
                       THEN check_mutability("mutable borrow", eb.exp.v)
                       ELSE [used |-> {}, diag |-> << >>]
                e_ == IF is_use THEN TE_BorrowLocal(mut_, eb.exp.v) ELSE TE_TempBorrow(mut_, eb)
            IN  [e |-> TExp(NRef(mut_, dot.ty), e_), diag |-> chk.diag, used |-> chk.used]
      [] OTHER ->
            LET lhs_borrow == exp_dotted_to_borrow(subst, mut_, dot.lhs)
                unfolded == unfold_type(subst, lhs_borrow.e.ty)
                lhs_mut == unfolded.mut
            IN  [e |-> TExp(NRef(mut_, dot.ty), TE_Borrow(mut_, lhs_borrow.e, dot.field)),
                 diag |-> lhs_borrow.diag \o invalid_mutable_borrow(lhs_mut, mut_),
                 used |-> lhs_borrow.used]

(* exp_dotted_to_owned_value; usage is Move, Copy or Use, the edition has Move2024Paths *)
exp_dotted_to_owned_value(subst, usage, edot, inner_ty) ==
    IF edot.d \in {"Exp", "TmpBorrow"}
    THEN [e |-> edot.e, diag |-> << >>, used |-> {}]
    ELSE LET eborrow == exp_dotted_to_borrow(subst, FALSE, edot)
         IN  IF usage = "Move"
             THEN [e |-> TExp(error_type, TE_UnresolvedError),
                   diag |-> eborrow.diag
                            \o << Diag("TypeSafety::InvalidMoveOp", << "Invalid 'move'" >>) >>,
                   used |-> eborrow.used]
             ELSE [e |-> TExp(inner_ty, TE_Dereference(eborrow.e)),
                   diag |-> eborrow.diag
                            \o (IF has_ability(inner_ty, "copy")
                                THEN << >>
                                ELSE << Diag("AbilitySafety::Constraint",
                                             << "Invalid copy of field without the 'copy' ability",
                                                edot.field >>) >>),
                   used |-> eborrow.used]

edotted_ty_base(ty) == IF ty.k = "Ref" THEN ty.ty ELSE ty

(* The use funs in scope: for every type name, a method taking the receiver by         *)
(* immutable reference, one by mutable reference and one by value                       *)
Methods == {"imm", "mutb", "own", "nosuch"}
ResolvedFunctionType(first) == [params |-> << << "self", first >> >>]

(* core::make_method_call_type *)
make_method_call_type(edotted_bty, tn, method) ==
    CASE method = "imm" ->
            [r |-> Some(<< "m", method, ResolvedFunctionType(NRef(FALSE, edotted_bty)) >>),
             diag |-> << >>]
      [] method = "mutb" ->
            [r |-> Some(<< "m", method, ResolvedFunctionType(NRef(TRUE, edotted_bty)) >>),
             diag |-> << >>]
      [] method = "own" ->
            [r |-> Some(<< "m", method, ResolvedFunctionType(edotted_bty) >>), diag |-> << >>]
      [] OTHER ->
            [r |-> None,
             diag |-> << Diag("TypeSafety::InvalidMethodCall", << "No known method", method >>) >>]

(* method_call_resolve, "add a borrow if needed" *)
RECURSIVE add_borrow_if_needed(_, _)
add_borrow_if_needed(subst, edotted) ==
    CASE edotted.d = "Exp" ->
            IF unfold_type(subst, edotted.e.ty).k = "Ref"
            THEN edotted
            ELSE ExpDotted_TmpBorrow(edotted.e, edotted.e.ty)
      [] edotted.d = "TmpBorrow" -> edotted
      [] OTHER ->
            ExpDotted_Dot(add_borrow_if_needed(subst, edotted.lhs), edotted.field, edotted.ty)

method_call_first_arg_immutable(subst, first, edotted, edotted_ty) ==
    IF first.k = "Ref"
    THEN exp_dotted_to_borrow(subst, FALSE, add_borrow_if_needed(subst, edotted))
    ELSE exp_dotted_to_owned_value(subst, "Use", edotted, edotted_ty)

(* method_call_resolve, first_arg: by the type of the first parameter *)
method_call_first_arg(subst, first, edotted, edotted_ty) ==
    IF first.k = "Ref"
    THEN exp_dotted_to_borrow(subst, first.mut, add_borrow_if_needed(subst, edotted))
    ELSE exp_dotted_to_owned_value(subst, "Use", edotted, edotted_ty)

method_call_resolve(subst, edotted, edotted_ty, method) ==
    LET edotted_ty_unfolded == unfold_type(subst, edotted_ty)
        edotted_bty == edotted_ty_base(edotted_ty_unfolded)
    IN  IF edotted_bty.k # "Apply"
        THEN [r |-> None, used |-> {},
              diag |-> IF edotted_bty.k = "UnresolvedError"
                       THEN << >>
                       ELSE << Diag("TypeSafety::InvalidMethodCall",
                                    << "Invalid method call", edotted_bty.k >>) >>]
        ELSE LET c == make_method_call_type(edotted_bty, edotted_bty.tn, method)
             IN  IF c.r = None
                 THEN [r |-> None, used |-> {}, diag |-> c.diag]
                 ELSE LET fty == c.r[1][3]
                          a == method_call_first_arg(subst, fty.params[1][2], edotted, edotted_ty)
                      IN  [r |-> Some([m |-> c.r[1][1], f |-> c.r[1][2], fty |-> fty,
                                       first_arg |-> a.e]),
                           used |-> a.used,
                           diag |-> a.diag]

(* The first expression of a chain, typed: a local declared 'mut' or not, a call, a     *)
(* constant                                                                              *)
BaseTypes == { StructP, NRef(FALSE, StructP), NRef(TRUE, StructP), TVar(1) }
BaseExps ==
    { TExp(ty, TE_Use(Local("x", mut))) : ty \in BaseTypes, mut \in BOOLEAN }
    \cup { TExp(ty, TE_ModuleCall("g")) : ty \in BaseTypes }
    \cup { TExp(TU64, TE_Constant("C")) }

(* f is a field of every struct, g of none *)
FieldNames == {"f", "g"}

RECURSIVE Chains(_)
Chains(n) ==
    IF n = 0
    THEN { N_Exp(e) : e \in BaseExps }
    ELSE LET shorter == Chains(n - 1)
         IN  shorter \cup { N_Dot(c, f) : c \in shorter, f \in FieldNames }

(* Variable 1 free, or bound to the struct or to a reference to it *)
DottedSubsts ==
    { [tvars |-> m, num_vars |-> {}] :
        m \in { EmptyMap }
              \cup { [v \in {1} |-> t] : t \in { StructP, NRef(FALSE, StructP), NRef(TRUE, StructP) } } }

DottedUsages == {"Move", "Copy", "Use"}

(* core::Context, with the locals marked as used mutably *)
TContextDotted(subst) == [macro_expansion |-> << >>, subst |-> subst, mutably_used |-> {}]

InitDotted ==
    /\ ctl = << >>
    /\ context = ContextNew
    /\ diags = << >>
    /\ decl_log = << >>
    /\ last = NoOutcome
    /\ \E subst \in DottedSubsts : tcontext = TContextDotted(subst)
    /\ \E ndotted \in Chains(MaxChain) :
          \/ \E mut_ \in BOOLEAN :
                /\ ndotted.d = "Dot"
                /\ ast = Some([k |-> "ExpDotted", usage |-> << "Borrow", mut_ >>,
                               ndotted |-> ndotted])
          \/ \E usage \in DottedUsages :
                /\ ndotted.d = "Dot"
                /\ ast = Some([k |-> "ExpDotted", usage |-> << usage >>, ndotted |-> ndotted])
          \/ \E method \in Methods :
                ast = Some([k |-> "MethodCall", method |-> method, ndotted |-> ndotted])

(* exp, ExpDotted(Borrow(mut_), ndotted) for a chain with a field access *)
ExpDottedBorrow(mut_, ndotted) ==
    /\ last = NoOutcome
    /\ LET d == exp_dotted(tcontext.subst, Some("borrow"), ndotted)
           b == exp_dotted_to_borrow(tcontext.subst, mut_, d.edot)
       IN  /\ tcontext' = [tcontext EXCEPT !.mutably_used = @ \cup b.used]
           /\ diags' = diags \o d.diag \o b.diag
           /\ last' = Outcome("exp_dotted_to_borrow", << "Borrow", mut_ >>, Some(d.edot),
                              Some(b.e), b.diag, [ty |-> d.ty])
    /\ UNCHANGED << ctl, context, decl_log, ast >>

(* exp, ExpDotted(usage, ndotted) for Move, Copy and Use of a chain with a field access *)
ExpDottedOwned(usage, ndotted) ==
    /\ last = NoOutcome
    /\ LET d == exp_dotted(tcontext.subst, Some("dot access"), ndotted)
           o == exp_dotted_to_owned_value(tcontext.subst, usage, d.edot, d.ty)
       IN  /\ tcontext' = [tcontext EXCEPT !.mutably_used = @ \cup o.used]
           /\ diags' = diags \o d.diag \o o.diag
           /\ last' = Outcome("exp_dotted_to_owned_value", << usage >>, Some(d.edot),
                              Some(o.e), o.diag, [ty |-> d.ty])
    /\ UNCHANGED << ctl, context, decl_log, ast >>

(* exp, MethodCall(ndotted, f, ..), as far as the receiver: exp_dotted without a       *)
(* constraint, then method_call_resolve                                                 *)
MethodCallResolve(ndotted, method) ==
    /\ last = NoOutcome
    /\ LET d == exp_dotted(tcontext.subst, None, ndotted)
           r == method_call_resolve(tcontext.subst, d.edot, d.ty, method)
       IN  /\ tcontext' = [tcontext EXCEPT !.mutably_used = @ \cup r.used]
           /\ diags' = diags \o d.diag \o r.diag
           /\ last' = Outcome("method_call_resolve", << method >>, Some(d.edot), r.r, r.diag,
                              [ty |-> d.ty])
    /\ UNCHANGED << ctl, context, decl_log, ast >>

NextDotted ==
    \/ ast # None /\ ast[1].k = "ExpDotted" /\ ast[1].usage[1] = "Borrow"
          /\ ExpDottedBorrow(ast[1].usage[2], ast[1].ndotted)
    \/ ast # None /\ ast[1].k = "ExpDotted" /\ ast[1].usage[1] # "Borrow"
          /\ ExpDottedOwned(ast[1].usage[1], ast[1].ndotted)
    \/ ast # None /\ ast[1].k = "MethodCall"
          /\ MethodCallResolve(ast[1].ndotted, ast[1].method)

SpecDotted == InitDotted /\ [][NextDotted]_vars

(* ------------------------------------------------------------------------------------ *)
(* Mutable borrows through a chain, and the receiver of a method call                    *)
(* ------------------------------------------------------------------------------------ *)
ConvertedChain == last.name[1]
RECURSIVE ProperPrefixes(_)
ProperPrefixes(dot) ==
    IF dot.d = "Dot" THEN {dot.lhs} \cup ProperPrefixes(dot.lhs) ELSE {}
RECURSIVE ChainLength(_)
ChainLength(dot) == IF dot.d = "Dot" THEN 1 + ChainLength(dot.lhs) ELSE 0
RECURSIVE ChainBase(_)
ChainBase(dot) == IF dot.d = "Dot" THEN ChainBase(dot.lhs) ELSE dot

(* the reference a prefix stands for while the chain is borrowed mutably is immutable *)
BorrowedImmutably(prefix) ==
    LET ty == unfold_type(tcontext.subst, exp_dotted_to_borrow(tcontext.subst, TRUE, prefix).e.ty)
    IN  ty.k = "Ref" /\ ~ty.mut
ConvertedToMutableBorrow ==
    \/ last.op = "exp_dotted_to_borrow" /\ last.usage = << "Borrow", TRUE >>
    \/ last.op = "method_call_resolve" /\ last.usage = << "mutb" >> /\ last.ret # None
IsRefTrans(d) == d.code = "ReferenceSafety::RefTrans"
RefTransDiags == SelectSeq(last.diag, IsRefTrans)

(* C19: converting a chain of field accesses to a mutable borrow records an error       *)
(* diagnostic whenever a prefix of the chain is borrowed as an immutable reference,     *)
(* whatever the length of the chain.                                                    *)
C19_MutableBorrowThroughImmutablePrefix ==
    (ConvertedToMutableBorrow /\ \E p \in ProperPrefixes(ConvertedChain) : BorrowedImmutably(p)) =>
        /\ Len(RefTransDiags) >= 1
        /\ \E i \in 1..Len(diags) : IsRefTrans(diags[i])

C19_Witness ==
    /\ last.op = "exp_dotted_to_borrow" /\ last.usage = << "Borrow", TRUE >>
    /\ ChainLength(ConvertedChain) = MaxChain
    /\ ChainBase(ConvertedChain) = ExpDotted_Exp(TExp(NRef(FALSE, StructP), TE_Use(Local("x", TRUE))))
    /\ ConvertedChain.ty = TU64
    /\ Len(RefTransDiags) = 1

Resolved == last.op = "method_call_resolve" /\ last.ret # None
FirstParameter == last.ret[1].fty.params[1][2]
FirstArg == last.ret[1].first_arg
FirstArgType == unfold_type(tcontext.subst, FirstArg.ty)
IsBorrowOf(e, mut) == e.exp.e \in {"BorrowLocal", "TempBorrow", "Borrow"} /\ e.exp.mut = mut

(* C20, as stated: the receiver is a reference of the mutability of the first          *)
(* parameter when that is a reference, and an owned value when it is not, for every    *)
(* shape of receiver.                                                                    *)
C20_ReceiverMatchesFirstParameter ==
    Resolved =>
        IF FirstParameter.k = "Ref"
        THEN FirstArgType.k = "Ref" /\ FirstArgType.mut = FirstParameter.mut
        ELSE FirstArgType.k # "Ref"

(* C20: for a first parameter that is a reference of mutability m, a receiver that is   *)
(* a bare non-reference value or a field chain becomes a borrow of mutability m, and a  *)
(* bare expression that is already a reference is handed over as it is; for a first     *)
(* parameter that is not a reference, a field chain becomes the dereference of an       *)
(* immutable borrow and a bare expression is handed over as it is.                      *)
C20_ReceiverByShape ==
    Resolved =>
        IF FirstParameter.k = "Ref"
        THEN IF ConvertedChain.d = "Exp"
             THEN FirstArg = ConvertedChain.e
             ELSE /\ FirstArg.ty = NRef(FirstParameter.mut, ConvertedChain.ty)
                  /\ IsBorrowOf(FirstArg, FirstParameter.mut)
        ELSE IF ConvertedChain.d = "Dot"
             THEN /\ FirstArg.exp.e = "Dereference"
                  /\ IsBorrowOf(FirstArg.exp.inner, FALSE)
                  /\ FirstArg.ty = ConvertedChain.ty
             ELSE FirstArg = ConvertedChain.e

C20_Witness ==
    /\ Resolved
    /\ FirstParameter = NRef(FALSE, StructP)
    /\ ConvertedChain = ExpDotted_Exp(TExp(NRef(TRUE, StructP), TE_Use(Local("x", FALSE))))
    /\ FirstArg.ty = NRef(TRUE, StructP)

(* ------------------------------------------------------------------------------------ *)
(* Naming: variant patterns and the ellipsis                                             *)
(* ------------------------------------------------------------------------------------ *)
MaxPatArgs == 3

(* FieldInfo *)
FieldInfoPositional(n) == [fi |-> "Positional", n |-> n, fields |-> {}]
FieldInfoNamed(fields) == [fi |-> "Named", n |-> 0, fields |-> fields]
FieldInfoEmpty == [fi |-> "Empty", n |-> 0, fields |-> {}]

field_count(field_info) ==
    CASE field_info.fi = "Positional" -> field_info.n
      [] field_info.fi = "Named" -> Cardinality(field_info.fields)
      [] OTHER -> 0

(* Field names in the order of a BTreeSet<Field>; the first are format!("{i}") of 0.. *)
FieldOrder == << "0", "1", "2", "3", "4", "5", "a", "b", "c" >>
PositionalField(idx) == FieldOrder[idx + 1]
SortedFields(fields) == LET In(f) == f \in fields IN SelectSeq(FieldOrder, In)

(* The variants of the enum in scope: empty, positional of one and of two fields, named *)
DeclaredVariants ==
    [v \in {"V0", "V1", "V2", "VN"} |->
        CASE v = "V0" -> FieldInfoEmpty
          [] v = "V1" -> FieldInfoPositional(1)
          [] v = "V2" -> FieldInfoPositional(2)
          [] OTHER    -> FieldInfoNamed({"a", "b"})]

(* E::MatchPattern_ and N::MatchPattern_ *)
EP_Wildcard == [p |-> "Wildcard"]
EP_Literal(v) == [p |-> "Literal", v |-> v]
EP_PositionalConstructor(name, args) == [p |-> "PositionalConstructor", name |-> name, args |-> args]
EP_FieldConstructor(name, args, ellipsis) ==
    [p |-> "FieldConstructor", name |-> name, args |-> args, ellipsis |-> ellipsis]
NP_Constructor(variant, args) == [p |-> "Constructor", variant |-> variant, args |-> args]
NP_ErrorPat == [p |-> "ErrorPat"]

(* E::Ellipsis *)
Ellipsis_Binder(p) == [el |-> "Binder", p |-> p]
Ellipsis_Ellipsis == [el |-> "Ellipsis", p |-> EP_Wildcard]

(* Context::resolve_variant_name for a name of the form Enum::variant *)
resolve_variant_name(verb, variant_name) ==
    IF variant_name \in DOMAIN DeclaredVariants
    THEN [r |-> Some(DeclaredVariants[variant_name]), diag |-> << >>]
    ELSE [r |-> None,
          diag |-> << Diag("NameResolution::UnboundVariant",
                           << "Variant is not part of this enum", verb, variant_name >>) >>]

(* (0..=missing).map(|_| replacement(eloc)) *)
Replacements(missing) == [i \in 1..(missing + 1) |-> EP_Wildcard]
ReplacementsExclusive(missing) == [i \in 1..missing |-> EP_Wildcard]

RECURSIVE FlatMapEllipsis(_, _)
FlatMapEllipsis(missing, args) ==
    IF args = << >>
    THEN << >>
    ELSE (IF Head(args).el = "Binder" THEN << Head(args).p >> ELSE Replacements(missing))
         \o FlatMapEllipsis(missing, Tail(args))

RECURSIVE FlatMapEllipsisExclusive(_, _)
FlatMapEllipsisExclusive(missing, args) ==
    IF args = << >>
    THEN << >>
    ELSE (IF Head(args).el = "Binder" THEN << Head(args).p >> ELSE ReplacementsExclusive(missing))
         \o FlatMapEllipsisExclusive(missing, Tail(args))

expand_positional_ellipsis_exclusive_range(missing, args) ==
    LET flat == FlatMapEllipsisExclusive(missing, args)
    IN  [i \in 1..Len(flat) |-> << PositionalField(i - 1), i - 1, flat[i] >>]

(* the list of (field, (idx, pattern)) *)
expand_positional_ellipsis(missing, args) ==
    LET flat == FlatMapEllipsis(missing, args)
    IN  [i \in 1..Len(flat) |-> << PositionalField(i - 1), i - 1, flat[i] >>]

(* args is the UniqueMap from field to (idx, pattern) *)
expand_named_ellipsis(field_info, args) ==
    LET declared == CASE field_info.fi = "Empty" -> {}
                      [] field_info.fi = "Named" -> field_info.fields
                      [] OTHER -> { PositionalField(i) : i \in 0..(field_info.n - 1) }
        fields == SortedFields(declared \ DOMAIN args)
        start_idx == Cardinality(DOMAIN args)
        Index(f) == CHOOSE i \in 1..Len(fields) : fields[i] = f
    IN  [f \in DOMAIN args \cup (declared \ DOMAIN args) |->
            IF f \in DOMAIN args THEN args[f] ELSE << start_idx + Index(f) - 1, EP_Wildcard >>]

PositionalCallMismatch(msg) == Diag("NameResolution::PositionalCallMismatch", << msg >>)

(* match_pattern; the patterns inside a constructor are literals and wildcards *)
match_pattern(pat) ==
    CASE pat.p = "PositionalConstructor" ->
            LET v == resolve_variant_name("pattern", pat.name)
            IN  IF v.r = None
                THEN [pat |-> NP_ErrorPat, diag |-> v.diag]
                ELSE LET field_info == v.r[1]
                         fields == field_count(field_info)
                         missing == fields - Len(pat.args)
                         args == expand_positional_ellipsis(missing, pat.args)
                     IN  [pat |-> NP_Constructor(pat.name,
                                    [f \in { args[i][1] : i \in 1..Len(args) } |->
                                        LET i == CHOOSE i \in 1..Len(args) : args[i][1] = f
                                        IN  << args[i][2], args[i][3] >>]),
                          diag |-> CASE field_info.fi = "Empty" ->
                                          << PositionalCallMismatch("Empty variants are not matched with positional variant syntax") >>
                                     [] field_info.fi = "Named" ->
                                          << PositionalCallMismatch("Named variant declarations require named patterns") >>
                                     [] OTHER -> << >>]
      [] pat.p = "FieldConstructor" ->
            LET v == resolve_variant_name("pattern", pat.name)
            IN  IF v.r = None
                THEN [pat |-> NP_ErrorPat, diag |-> v.diag]
                ELSE LET field_info == v.r[1]
                         args == IF pat.ellipsis
                                 THEN expand_named_ellipsis(field_info, pat.args)
                                 ELSE pat.args
                     IN  [pat |-> NP_Constructor(pat.name, args),
                          diag |-> CASE field_info.fi = "Empty" ->
                                          << PositionalCallMismatch("Empty variants are not matched with variant field syntax") >>
                                     [] field_info.fi = "Positional" ->
                                          << PositionalCallMismatch("Positional variant declarations require positional patterns") >>
                                     [] OTHER -> << >>]
      [] OTHER -> [pat |-> pat, diag |-> << >>]

(* Positional arguments with at most one ellipsis *)
RECURSIVE EllipsisLists(_)
EllipsisLists(n) ==
    IF n = 0
    THEN { << >> }
    ELSE LET shorter == EllipsisLists(n - 1)
             IsEllipsis(a) == a.el = "Ellipsis"
         IN  shorter
             \cup { Append(l, Ellipsis_Binder(EP_Literal(1))) : l \in { s \in shorter : Len(s) = n - 1 } }
             \cup { Append(l, Ellipsis_Ellipsis) :
                      l \in { s \in shorter : Len(s) = n - 1 /\ SelectSeq(s, IsEllipsis) = << >> } }

PatternFieldNames == {"a", "c", "0"}
FieldRank(f) == CHOOSE i \in 1..Len(FieldOrder) : FieldOrder[i] = f
NamedArgs ==
    { [f \in fs |-> << Cardinality({ g \in fs : FieldRank(g) < FieldRank(f) }), EP_Literal(1) >>] :
        fs \in SUBSET PatternFieldNames }
PatternVariants == {"V0", "V1", "V2", "VN", "VX"}

InitPattern ==
    /\ ctl = << >>
    /\ context = ContextNew
    /\ diags = << >>
    /\ decl_log = << >>
    /\ last = NoOutcome
    /\ tcontext = TContextNew
    /\ \E name \in PatternVariants :
          \/ \E args \in EllipsisLists(MaxPatArgs) :
                ast = Some(EP_PositionalConstructor(name, args))
          \/ \E args \in NamedArgs, ellipsis \in BOOLEAN :
                ast = Some(EP_FieldConstructor(name, args, ellipsis))

(* match_pattern on the pattern of an arm *)
MatchPattern(pat) ==
    /\ last = NoOutcome
    /\ LET r == match_pattern(pat)
       IN  /\ diags' = diags \o r.diag
           /\ last' = Outcome("match_pattern", "", Some(pat), Some(r.pat), r.diag, EmptyMap)
    /\ UNCHANGED << ctl, context, decl_log, tcontext, ast >>

NextPattern == ast # None /\ ast[1].p \in {"PositionalConstructor", "FieldConstructor"}
                  /\ MatchPattern(ast[1])

SpecPattern == InitPattern /\ [][NextPattern]_vars

(* ------------------------------------------------------------------------------------ *)
(* The ellipsis of a variant pattern                                                     *)
(* ------------------------------------------------------------------------------------ *)
PatternIn == last.name[1]
PatternOut == last.ret[1]
IsEllipsisArg(a) == a.el = "Ellipsis"
IsBinderArg(a) == a.el = "Binder"
HasEllipsis ==
    IF PatternIn.p = "PositionalConstructor"
    THEN SelectSeq(PatternIn.args, IsEllipsisArg) # << >>
    ELSE PatternIn.ellipsis
ExpandedVariant ==
    /\ last.op = "match_pattern"
    /\ PatternOut.p = "Constructor"
    /\ HasEllipsis
VariantArity == field_count(DeclaredVariants[PatternIn.name])
DeclaredFieldNames ==
    LET fi == DeclaredVariants[PatternIn.name]
    IN  IF fi.fi = "Named" THEN fi.fields ELSE { FieldOrder[i] : i \in 1..fi.n }
ExplicitCount == Len(SelectSeq(PatternIn.args, IsBinderArg))
EllipsisAt == CHOOSE i \in 1..Len(PatternIn.args) : PatternIn.args[i].el = "Ellipsis"
Max0(n) == IF n > 0 THEN n ELSE 0
WildcardFields == { f \in DOMAIN PatternOut.args : PatternOut.args[f][2] = EP_Wildcard }

(* C21, as stated: a variant pattern with an ellipsis is expanded to exactly as many   *)
(* fields as the variant declares.                                                      *)
C21_ExpandedToVariantArity ==
    ExpandedVariant => Cardinality(DOMAIN PatternOut.args) = VariantArity

(* C21: in a positional pattern the ellipsis is replaced in place by (declared arity    *)
(* minus explicit sub-patterns) wildcards, by none when there are more explicit         *)
(* sub-patterns than fields; in a named pattern one wildcard is added for each declared *)
(* field the pattern does not name. The result has the declared number of fields when   *)
(* the explicit sub-patterns are no more than the fields and name declared fields only. *)
C21_EllipsisFillsMissingFields ==
    ExpandedVariant =>
        IF PatternIn.p = "PositionalConstructor"
        THEN LET added == Max0(VariantArity - ExplicitCount)
             IN  /\ Cardinality(DOMAIN PatternOut.args) = ExplicitCount + added
                 /\ WildcardFields = { PositionalField(i - 1) : i \in EllipsisAt..(EllipsisAt + added - 1) }
                 /\ \A f \in DOMAIN PatternOut.args :
                       \E i \in 1..(ExplicitCount + added) :
                          f = PositionalField(i - 1) /\ PatternOut.args[f][1] = i - 1
                 /\ (ExplicitCount <= VariantArity =>
                        Cardinality(DOMAIN PatternOut.args) = VariantArity)
        ELSE /\ DOMAIN PatternOut.args = DOMAIN PatternIn.args \cup DeclaredFieldNames
             /\ WildcardFields = DeclaredFieldNames \ DOMAIN PatternIn.args
             /\ \A f \in DOMAIN PatternIn.args : PatternOut.args[f] = PatternIn.args[f]
             /\ (DOMAIN PatternIn.args \subseteq DeclaredFieldNames =>
                    Cardinality(DOMAIN PatternOut.args) = VariantArity)

C21_Witness ==
    /\ ExpandedVariant
    /\ PatternIn.p = "PositionalConstructor"
    /\ PatternIn.name = "V2"
    /\ PatternIn.args = << Ellipsis_Ellipsis, Ellipsis_Binder(EP_Literal(1)) >>
    /\ DOMAIN PatternOut.args = {"0", "1"}
    /\ PatternOut.args["0"] = << 0, EP_Wildcard >>

(* ------------------------------------------------------------------------------------ *)
(* Naming: match arms                                                                    *)
(* ------------------------------------------------------------------------------------ *)
MaxArmDecls == 4

(* Context::as_var: as resolve_local, without marking the use *)
as_var(c, name) ==
    LET id_opt == MapGet(Last(c.local_scopes), name)
    IN  IF id_opt = None THEN None ELSE Some(Var(name, id_opt[1]))

(* exp over an expression that reads the given names in turn *)
RECURSIVE exp_names(_, _)
exp_names(c, names) ==
    IF names = << >>
    THEN [ctx |-> c, diag |-> << >>]
    ELSE LET r == resolve_local(c, Head(names))
             rest == exp_names(r.ctx, Tail(names))
         IN  [ctx |-> rest.ctx, diag |-> r.diag \o rest.diag]

(* for binder in &binders { context.declare_local(false, binder) } *)
RECURSIVE declare_binders(_, _)
declare_binders(c, binders) ==
    IF binders = << >>
    THEN [ctx |-> c, vars |-> << >>]
    ELSE LET d == declare_local(c, FALSE, Head(binders))
             rest == declare_binders(d.ctx, Tail(binders))
         IN  [ctx |-> rest.ctx, vars |-> << d.var >> \o rest.vars]

BinderMap(c, binders) ==
    [n \in { binders[i] : i \in 1..Len(binders) } |-> as_var(c, n)[1]]

filter_guard_binders_keep_all(used_locals, binder_map, guard_binder_map) ==
    [v \in { binder_map[n] : n \in DOMAIN guard_binder_map } |->
        guard_binder_map[v.name]]

(* the binders whose copy for the guard is among the used locals, with that copy *)
filter_guard_binders(used_locals, binder_map, guard_binder_map) ==
    [v \in { binder_map[n] : n \in { m \in DOMAIN guard_binder_map :
                                       guard_binder_map[m] \in used_locals } } |->
        guard_binder_map[v.name]]

(* match_arm: the arm's binders are names, its guard and right-hand side read names,   *)
(* its pattern binds each binder                                                        *)
match_arm(c, arm) ==
    LET c1 == new_local_scope(c)
        d1 == declare_binders(c1, arm.binders)
        binder_map == BinderMap(d1.ctx, arm.binders)
        c2 == new_local_scope(d1.ctx)
        d2 == declare_binders(c2, arm.binders)
        guard_binder_map == BinderMap(d2.ctx, arm.binders)
        g == IF arm.guard = None THEN [ctx |-> d2.ctx, diag |-> << >>]
             ELSE exp_names(d2.ctx, arm.guard[1])
        guard_binders == filter_guard_binders(g.ctx.used_locals, binder_map, guard_binder_map)
        c3 == close_local_scope(g.ctx)
        r == exp_names(c3, arm.rhs)
        binders == [i \in 1..Len(arm.binders) |-> as_var(r.ctx, arm.binders[i])[1]]
        rhs_binders == { binders[i] : i \in { j \in 1..Len(binders) :
                                                binders[j] \in r.ctx.used_locals } }
        c4 == [r.ctx EXCEPT !.used_locals = @ \cup DOMAIN guard_binders]
        pat == exp_names(c4, arm.binders)
        c5 == close_local_scope(pat.ctx)
    IN  [ctx |-> c5,
         arm |-> [binders |-> binders, guard_binders |-> guard_binders,
                  rhs_binders |-> rhs_binders],
         declared |-> << d1.vars, d2.vars >>,
         inner |-> << d1.ctx, d2.ctx >>,
         diag |-> g.diag \o r.diag \o pat.diag]

ArmBinders == { << >>, << "x" >>, << "x", "y" >> }
ArmGuards == { None, Some(<< >>), Some(<< "x" >>), Some(<< "y" >>), Some(<< "x", "y" >>) }
ArmRhs == { << >>, << "x" >> }

(* exp, Match(subject, arms): one arm *)
MatchArm(binders, guard, rhs) ==
    /\ InBody
    /\ Len(decl_log) + 2 * Len(binders) <= MaxArmDecls
    /\ LET arm == [binders |-> binders, guard |-> guard, rhs |-> rhs]
           r == match_arm(context, arm)
           lvl == Len(context.local_scopes)
           log1 == LogDeclared(decl_log, r.declared[1], "MatchBinder", lvl + 1)
           log2 == LogDeclared(log1, r.declared[2], "GuardCopy", lvl + 2)
       IN  /\ CanReport(r.diag)
           /\ context' = r.ctx
           /\ diags' = diags \o r.diag
           /\ decl_log' = LogClosed(LogClosed(log2, lvl + 2), lvl + 1)
           /\ last' = Outcome("match_arm", "", Some(arm), Some(r.arm), r.diag, context)
    /\ UNCHANGED << ctl, tcontext, ast >>

NextArms ==
    \/ \E params \in UnusedParamLists : Function(params)
    \/ FunctionEnd
    \/ LocalsNest /\ BlockEnter
    \/ SequenceExit
    \/ \E n \in Names : Bind(<< n >>)
    \/ \E v \in Names : Name(v)
    \/ \E elambda \in UnusedLambdaBindLists : LocalsNest /\ LambdaEnter(elambda)
    \/ LambdaExit
    \/ \E binders \in ArmBinders, guard \in ArmGuards, rhs \in ArmRhs :
          MatchArm(binders, guard, rhs)

SpecArms == InitNaming /\ [][NextArms]_vars

(* ------------------------------------------------------------------------------------ *)
(* Guard binders of a match arm                                                          *)
(* ------------------------------------------------------------------------------------ *)
ArmIn == last.name[1]
ArmOut == last.ret[1]
ArmResolved == last.op = "match_arm"
SeqRange(seq) == { seq[i] : i \in 1..Len(seq) }
ReadInGuard ==
    IF ArmIn.guard = None THEN {} ELSE SeqRange(ArmIn.guard[1]) \cap SeqRange(ArmIn.binders)

(* C22: the guard binders kept for a match arm are exactly the binders of the arm that  *)
(* are read in its guard, each with its copy for the guard; none is kept when the arm   *)
(* has no guard.                                                                        *)
C22_GuardBindersAreThoseRead ==
    ArmResolved =>
        /\ DOMAIN ArmOut.guard_binders = { v \in SeqRange(ArmOut.binders) : v.name \in ReadInGuard }
        /\ \A v \in DOMAIN ArmOut.guard_binders :
              /\ ArmOut.guard_binders[v].name = v.name
              /\ ArmOut.guard_binders[v].id # v.id

C22_Witness ==
    /\ ArmResolved
    /\ ArmIn.binders = << "x", "y" >>
    /\ ArmIn.guard = Some(<< "x" >>)
    /\ DOMAIN ArmOut.guard_binders = { Var("x", 1) }
    /\ ArmOut.guard_binders[Var("x", 1)] = Var("x", 2)
    /\ Len(ArmOut.binders) = 2

(* ------------------------------------------------------------------------------------ *)
(* Typing: match arms                                                                    *)
(* ------------------------------------------------------------------------------------ *)
EnumE == NApply(ModuleType("m", "E"), << >>)

(* core::Context, with the types of the locals *)
TContextLocals(subst) == [macro_expansion |-> << >>, subst |-> subst, locals |-> EmptyMap]

(* core::Context::declare_local and get_local_type *)
typing_declare_local(tc, x, ty) == [tc EXCEPT !.locals = MapInsert(@, x, ty)]
get_local_type(tc, x) == tc.locals[x]

(* match_pattern, rtype!: the type under the reference of the subject, if it is one *)
rtype(mut_ref, ty) == IF mut_ref = None THEN ty ELSE NRef(mut_ref[1], ty)

(* N::MatchPattern_: a binder, or the variant of E with one field of type u64 bound *)
NP_Binder(x) == [p |-> "Binder", x |-> x]
NP_Variant(x) == [p |-> "Constructor", x |-> x]

typing_match_pattern(tc, pat, mut_ref) ==
    IF pat.p = "Binder"
    THEN [ctx |-> tc, ty |-> get_local_type(tc, pat.x), diag |-> << >>]
    ELSE LET tpat_ty == get_local_type(tc, pat.x)
             fty_ref == rtype(mut_ref, TU64)
             s == subtype(tc, "Invalid pattern field type", tpat_ty, fty_ref)
         IN  [ctx |-> s.ctx, ty |-> rtype(mut_ref, EnumE), diag |-> s.diag]

guard_binder_type_keep_mut(subst, ety) ==
    LET unfolded == unfold_type(subst, ety)
    IN  IF unfolded.k = "Ref" THEN unfolded ELSE NRef(FALSE, ety)

(* match_arm: the type of the copy of a binder for the guard *)
guard_binder_type(subst, ety) ==
    LET unfolded == unfold_type(subst, ety)
    IN  IF unfolded.k = "Ref" THEN NRef(FALSE, unfolded.ty) ELSE NRef(FALSE, ety)

RECURSIVE declare_guard_binders(_, _, _)
declare_guard_binders(tc, binder_map, guard_binders) ==
    IF guard_binders = << >>
    THEN tc
    ELSE LET pat_var == Head(guard_binders)[1]
             guard_var == Head(guard_binders)[2]
             ty == guard_binder_type(tc.subst, binder_map[pat_var])
         IN  declare_guard_binders(typing_declare_local(tc, guard_var, ty), binder_map,
                                   Tail(guard_binders))

BinderTVar == TVar(3)
ResultTVar == TVar(4)

(* exp on a guard or a right-hand side of the given type that reads the binder as a    *)
(* value of type use_ty, if it reads it                                                  *)
exp_reading(tc, x, use_ty) ==
    IF use_ty = None
    THEN [ctx |-> tc, diag |-> << >>]
    ELSE LET s == subtype(tc, "Invalid argument", get_local_type(tc, x), use_ty[1])
         IN  [ctx |-> s.ctx, diag |-> s.diag]

(* match_arm for an arm with one binder; guard_binders lists (pat_var, guard_var).      *)
(* The steps follow one another, each on the context the step before left: the pattern  *)
(* p, its type against the subject s1, the guard s2 with its binders declared, the      *)
(* reads of the right-hand side r, and its type against the result s3.                  *)
typing_match_arm(tc, subject_type, result_type, arm, ref_mut) ==
    LET x == arm.binder
        binders == << << x, BinderTVar >> >>
        binder_map == [v \in {x} |-> BinderTVar]
        arms ==
            UNION { UNION { UNION { UNION {
                { [ctx |-> s3.ctx,
                   arm |-> [binders |-> binders, guard_binders |-> arm.guard_binders],
                   diag |-> p.diag \o s1.diag \o s2.diag \o r.diag \o s3.diag] :
                    s3 \in { subtype(r.ctx, "Invalid right-hand side expression", arm.rhs,
                                     result_type) } } :
                r \in { exp_reading(s2.ctx, x, arm.rhs_use) } } :
                s2 \in { IF arm.guard = None
                         THEN [ctx |-> declare_guard_binders(s1.ctx, binder_map, arm.guard_binders),
                               diag |-> << >>]
                         ELSE subtype(declare_guard_binders(s1.ctx, binder_map, arm.guard_binders),
                                      "Invalid guard condition", arm.guard[1], TBool) } } :
                s1 \in { subtype(p.ctx, "Invalid pattern", p.ty, subject_type) } } :
                p \in { typing_match_pattern(typing_declare_local(tc, x, BinderTVar),
                                             arm.pattern, ref_mut) } }
    IN  CHOOSE narm \in arms : TRUE

SubjectTypes == { EnumE, NRef(FALSE, EnumE), NRef(TRUE, EnumE), TU64, NUnresolvedError, TVar(1) }
SubjectSubsts ==
    { [tvars |-> m, num_vars |-> {}] :
        m \in { EmptyMap }
              \cup { [v \in {1} |-> t] : t \in { EnumE, NRef(FALSE, EnumE), NRef(TRUE, EnumE) } } }
TypedArms ==
    [ binder : { Var("x", 1) },
      pattern : { NP_Binder(Var("x", 1)), NP_Variant(Var("x", 1)) },
      guard_binders : { << >>, << << Var("x", 1), Var("x", 2) >> >> },
      guard : { None, Some(TBool), Some(TU64) },
      rhs_use : { None, Some(TU64), Some(NRef(TRUE, TU64)), Some(NRef(TRUE, EnumE)) },
      rhs : { TU64 } ]

InitArmTyping ==
    /\ ctl = << >>
    /\ context = ContextNew
    /\ diags = << >>
    /\ decl_log = << >>
    /\ last = NoOutcome
    /\ \E subst \in SubjectSubsts : tcontext = TContextLocals(subst)
    /\ \E ty \in SubjectTypes, arm \in TypedArms :
          /\ (arm.guard = None => arm.guard_binders = << >>)
          /\ ast = Some([k |-> "Match", subject |-> ty, arm |-> arm])

(* exp, Match(subject, arms) with one arm, the subject already typed *)
Match(esubject_ty, narm) ==
    /\ last = NoOutcome
    /\ LET subject_type == unfold_type(tcontext.subst, esubject_ty)
           ref_mut == IF subject_type.k = "Ref" THEN Some(subject_type.mut) ELSE None
           r == typing_match_arm(tcontext, subject_type, ResultTVar, narm, ref_mut)
       IN  /\ tcontext' = r.ctx
           /\ diags' = diags \o r.diag
           /\ last' = Outcome("typing_match_arm", ref_mut, Some(narm), Some(r.arm), r.diag,
                              [subject_type |-> subject_type])
    /\ UNCHANGED << ctl, context, decl_log, ast >>

NextArmTyping == ast # None /\ ast[1].k = "Match" /\ Match(ast[1].subject, ast[1].arm)

SpecArmTyping == InitArmTyping /\ [][NextArmTyping]_vars

(* ------------------------------------------------------------------------------------ *)
(* The types of guard binders                                                            *)
(* ------------------------------------------------------------------------------------ *)
ArmTyped == last.op = "typing_match_arm"
GuardVars == { last.ret[1].guard_binders[i][2] : i \in 1..Len(last.ret[1].guard_binders) }
ResolvedLocalType(x) == unfold_type(tcontext.subst, tcontext.locals[x])

(* C23: every guard binder of a match arm has the type of an immutable reference,      *)
(* whether the subject is a value, an immutable or a mutable reference; with the types  *)
(* resolved none is a mutable reference and none is not a reference.                    *)
C23_GuardBindersAreImmutableReferences ==
    ArmTyped =>
        \A g \in GuardVars :
            /\ ResolvedLocalType(g).k = "Ref"
            /\ ~ResolvedLocalType(g).mut

C23_Witness ==
    /\ ArmTyped
    /\ last.usage = Some(TRUE)
    /\ last.name[1].pattern.p = "Binder"
    /\ Var("x", 2) \in GuardVars
    /\ ResolvedLocalType(Var("x", 1)) = NRef(TRUE, EnumE)
    /\ ResolvedLocalType(Var("x", 2)) = NRef(FALSE, EnumE)

(* ------------------------------------------------------------------------------------ *)
(* Bridge: BridgeCommittee::new                                                          *)
(* ------------------------------------------------------------------------------------ *)
BRIDGE_AUTHORITY_TOTAL_VOTING_POWER == 10000

(* u64 is modelled at StakeBits bits, wide enough for the total voting power *)
StakeBits == 14
MaxMembers == 2
StakeModulus == 2 ^ StakeBits
MaxStake == StakeModulus - 1

BridgeAuthority(pubkey, voting_power, is_blocklisted) ==
    [pubkey |-> pubkey, voting_power |-> voting_power, is_blocklisted |-> is_blocklisted]

InvalidBridgeCommittee(msg) == [r |-> "Err", err |-> << "InvalidBridgeCommittee", msg >>]
CommitteeOk(members, total_blocklisted_stake) ==
    [r |-> "Ok", members |-> members, total_blocklisted_stake |-> total_blocklisted_stake]
OverflowPanic == [r |-> "Panic"]

(* the loop of BridgeCommittee::new from member i on; overflow_checks is the build's   *)
(* setting: an addition that overflows panics with it and wraps without it              *)
RECURSIVE committee_loop(_, _, _, _, _, _)
committee_loop(members, i, members_map, total_stake, total_blocklisted_stake, overflow_checks) ==
    IF i > Len(members)
    THEN IF total_stake # BRIDGE_AUTHORITY_TOTAL_VOTING_POWER
         THEN InvalidBridgeCommittee("Total voting power does not equal to 10000")
         ELSE CommitteeOk(members_map, total_blocklisted_stake)
    ELSE LET member == members[i]
             public_key == member.pubkey
             sum == total_stake + member.voting_power
             blocklisted_sum == IF member.is_blocklisted
                                THEN total_blocklisted_stake + member.voting_power
                                ELSE total_blocklisted_stake
         IN  IF public_key \in DOMAIN members_map
             THEN InvalidBridgeCommittee("Duplicate BridgeAuthority Public key")
             ELSE IF overflow_checks /\ (sum > MaxStake \/ blocklisted_sum > MaxStake)
             THEN OverflowPanic
             ELSE committee_loop(members, i + 1, MapInsert(members_map, public_key, member),
                                 sum % StakeModulus, blocklisted_sum % StakeModulus,
                                 overflow_checks)

BridgeCommittee_new(members, overflow_checks) ==
    committee_loop(members, 1, EmptyMap, 0, 0, overflow_checks)

PublicKeys == {"k1", "k2"}
VotingPowers == { 0, 1, 5000, 9999, BRIDGE_AUTHORITY_TOTAL_VOTING_POWER, 10001, MaxStake }
Authorities ==
    { BridgeAuthority(k, p, b) : k \in PublicKeys, p \in VotingPowers, b \in BOOLEAN }
RECURSIVE MemberLists(_)
MemberLists(n) ==
    IF n = 0
    THEN { << >> }
    ELSE LET shorter == MemberLists(n - 1)
         IN  shorter \cup { Append(l, a) : l \in { s \in shorter : Len(s) = n - 1 }, a \in Authorities }

InitCommittee ==
    /\ ctl = << >>
    /\ context = ContextNew
    /\ diags = << >>
    /\ decl_log = << >>
    /\ last = NoOutcome
    /\ tcontext = TContextNew
    /\ \E members \in MemberLists(MaxMembers) : ast = Some([k |-> "BridgeCommittee", members |-> members])

BridgeCommitteeNew(members) ==
    /\ last = NoOutcome
    /\ \E overflow_checks \in BOOLEAN :
          last' = Outcome("BridgeCommittee::new", overflow_checks, Some(members),
                          Some(BridgeCommittee_new(members, overflow_checks)), << >>, EmptyMap)
    /\ UNCHANGED << ctl, context, diags, decl_log, tcontext, ast >>

NextCommittee == ast # None /\ ast[1].k = "BridgeCommittee" /\ BridgeCommitteeNew(ast[1].members)

SpecCommittee == InitCommittee /\ [][NextCommittee]_vars

(* ------------------------------------------------------------------------------------ *)
(* The committee is built exactly for distinct keys and a total of 10000                 *)
(* ------------------------------------------------------------------------------------ *)
CommitteeBuilt == last.op = "BridgeCommittee::new"
MembersIn == last.name[1]
RECURSIVE SumVotingPower(_)
SumVotingPower(members) ==
    IF members = << >> THEN 0 ELSE Head(members).voting_power + SumVotingPower(Tail(members))
DistinctKeys ==
    \A i, j \in 1..Len(MembersIn) : i # j => MembersIn[i].pubkey # MembersIn[j].pubkey

(* C24: BridgeCommittee::new returns a committee if and only if no two members share a  *)
(* public key and the voting powers sum to exactly 10000, and an InvalidBridgeCommittee *)
(* error in every other case.                                                           *)
C24_CommitteeIffDistinctKeysAndTotal ==
    CommitteeBuilt =>
        IF DistinctKeys /\ SumVotingPower(MembersIn) = BRIDGE_AUTHORITY_TOTAL_VOTING_POWER
        THEN last.ret[1].r = "Ok"
        ELSE last.ret[1].r = "Err" /\ last.ret[1].err[1] = "InvalidBridgeCommittee"

(* the same, for members whose voting powers sum to no more than a u64 holds *)
C24_CommitteeIffWithoutOverflow ==
    (CommitteeBuilt /\ SumVotingPower(MembersIn) <= MaxStake) =>
        IF DistinctKeys /\ SumVotingPower(MembersIn) = BRIDGE_AUTHORITY_TOTAL_VOTING_POWER
        THEN /\ last.ret[1].r = "Ok"
             /\ DOMAIN last.ret[1].members = { MembersIn[i].pubkey : i \in 1..Len(MembersIn) }
        ELSE last.ret[1].r = "Err" /\ last.ret[1].err[1] = "InvalidBridgeCommittee"

C24_Witness ==
    /\ CommitteeBuilt
    /\ Len(MembersIn) = 2
    /\ MembersIn[1].voting_power = MaxStake /\ MembersIn[2].voting_power = 10001
    /\ DistinctKeys
    /\ last.ret[1].r = "Ok"

(* ------------------------------------------------------------------------------------ *)
(* Declarations of one function are told apart by (name, id)                             *)
(* ------------------------------------------------------------------------------------ *)
DeclSites == { decl_log[i].site : i \in 1..Len(decl_log) }

(* C25: within one function, any two distinct local declarations (parameters, lets,     *)
(* lambda parameters, match binders, guard copies), also those of scopes closed since,  *)
(* have different (name, id) pairs.                                                     *)
C25_DeclarationsHaveDistinctVars ==
    \A i, j \in 1..Len(decl_log) :
        i # j => << decl_log[i].name, decl_log[i].id >> # << decl_log[j].name, decl_log[j].id >>

C25_Witness ==
    \E i, j, k \in 1..Len(decl_log) :
        /\ i < j /\ j < k
        /\ decl_log[i].name = decl_log[j].name /\ decl_log[j].name = decl_log[k].name
        /\ decl_log[i].site \in {"Parameter", "Bind", "Lambda"} /\ decl_log[i].live
        /\ decl_log[j].site = "MatchBinder" /\ ~decl_log[j].live
        /\ decl_log[k].site = "GuardCopy" /\ ~decl_log[k].live
        /\ decl_log[k].id = decl_log[j].id + 1 /\ decl_log[j].id = decl_log[i].id + 1

(* ------------------------------------------------------------------------------------ *)
(* Scopes and nominal blocks around expressions, sequences, match arms and lambdas       *)
(* ------------------------------------------------------------------------------------ *)
FrameParamLists == { << >>, << "x" >> }
FrameArmBinders == { << >>, << "x" >> }

NextFrames ==
    \/ \E params \in FrameParamLists : Function(params)
    \/ FunctionEnd
    \/ LocalsNest /\ BlockEnter
    \/ SequenceExit
    \/ \E lt \in LoopTypes : LocalsNest /\ LoopEnter(None, lt)
    \/ LoopExit
    \/ \E l \in Labels : LocalsNest /\ NamedBlockEnter(l)
    \/ NamedBlockExit
    \/ \E elambda \in LambdaBindLists : LocalsNest /\ LambdaEnter(elambda)
    \/ LambdaExit
    \/ Bind(<< "x" >>)
    \/ \E v \in Names : Name(v)
    \/ Break
    \/ \E binders \in FrameArmBinders : MatchArm(binders, Some(<< "x" >>), << "x" >>)

SpecFrames == InitNaming /\ [][NextFrames]_vars

(* a step that finishes the expression, sequence or lambda entered last *)
FrameExit == Len(ctl) >= 2 /\ ctl' = Front(ctl)
StacksAsAtEntry ==
    /\ context'.local_scopes = Last(ctl).scopes
    /\ context'.nominal_blocks = Last(ctl).blocks
ArmStep == last'.op = "match_arm"
StacksUnchanged ==
    /\ context'.local_scopes = context.local_scopes
    /\ context'.nominal_blocks = context.nominal_blocks
(* the nominal blocks as the body of the frame ctl[k] found them *)
BlocksInside(k) == IF k = Len(ctl) THEN context.nominal_blocks ELSE ctl[k + 1].blocks
LambdaFrames ==
    \A k \in 1..Len(ctl) :
        ctl[k].kind = "lambda" =>
            LET n == Len(ctl[k].blocks)
                inside == BlocksInside(k)
            IN  /\ Len(inside) = n + 2
                /\ SubSeq(inside, 1, n) = ctl[k].blocks
                /\ inside[n + 1].name_type = <<"LambdaLoopCapture">>
                /\ inside[n + 2].name_type = <<"LambdaReturn">>

(* C26: when an expression, a sequence, a match arm or a lambda has been resolved, the  *)
(* local-scope stack and the nominal-block stack are the ones from before it started,   *)
(* frame for frame, also when diagnostics were recorded inside; a lambda has exactly    *)
(* its two frames, loop capture below return, on the nominal blocks it found.           *)
C26_StacksRestored ==
    /\ [][(FrameExit => StacksAsAtEntry) /\ (ArmStep => StacksUnchanged)]_vars
    /\ []LambdaFrames

C26_Witness ==
    /\ last.op = "close_local_scope"
    /\ last.ret # None /\ last.ret[1].is_implicit
    /\ diags # << >>
    /\ Len(context.local_scopes) = 2 /\ context.local_scopes[2] # EmptyMap
    /\ context.nominal_blocks = << >> /\ context.nominal_block_id >= 2

(* ------------------------------------------------------------------------------------ *)
(* Typing: warning-filter scopes around the datatypes of a module                        *)
(* ------------------------------------------------------------------------------------ *)
MaxDatatypes == 3

(* CompilationEnv: the warning-filter scopes are a stack *)
add_warning_filter_scope(env, filter) == Append(env, filter)
pop_warning_filter_scope(env) == Front(env)

(* struct_def, with the scope of the struct's warning filter: a native struct returns   *)
(* right after the scope is added                                                       *)
struct_def_scopes(env, warning_filter, s) ==
    LET env1 == add_warning_filter_scope(env, warning_filter)
    IN  IF s.fields = None
        THEN env1
        ELSE pop_warning_filter_scope(env1)

(* enum_def, with the scope of the enum's warning filter: variant_def returns early for *)
(* an empty variant, enum_def goes on                                                   *)
enum_def_scopes(env, warning_filter, enum_) ==
    LET env1 == add_warning_filter_scope(env, warning_filter)
    IN  pop_warning_filter_scope(env1)

WarningFilters == {"allow_unused", "allow_all"}
ModuleStructs ==
    { NStructDefinition({}, << >>, fields) :
        fields \in { None, Some(<< >>), Some(<< TU64 >>), Some(<< NRef(FALSE, TU64) >>) } }
ModuleEnums ==
    { NEnumDefinition({}, << >>, variants) :
        variants \in { << >>, << None >>, << Some(<< TU64 >>) >>, << None, Some(<< TU64 >>) >> } }

TContextEnv(env) == [macro_expansion |-> << >>, subst |-> SubstEmpty, warning_filter |-> env]

InitWarningFilters ==
    /\ ctl = << >>
    /\ context = ContextNew
    /\ diags = << >>
    /\ decl_log = << >>
    /\ last = NoOutcome
    /\ tcontext = TContextEnv(<< >>)
    /\ ast = None

(* module: the module's scope is added, then come the structs *)
TypingModuleEnter(warning_filter) ==
    /\ ctl = << >> /\ last = NoOutcome
    /\ tcontext' = [tcontext EXCEPT !.warning_filter = add_warning_filter_scope(@, warning_filter)]
    /\ ctl' = << "module" >>
    /\ last' = Outcome("module_enter", "", None, None, << >>, tcontext.warning_filter)
    /\ UNCHANGED << context, diags, decl_log, ast >>

ModuleStructDef(warning_filter, s) ==
    /\ ctl # << >> /\ Len(ctl) <= MaxDatatypes /\ Last(ctl) \in {"module", "struct"}
    /\ LET d == typing_struct_def(s)
       IN  /\ diags' = diags \o d
           /\ last' = Outcome("struct_def", "", Some(s), None, d, tcontext.warning_filter)
    /\ tcontext' = [tcontext EXCEPT !.warning_filter = struct_def_scopes(@, warning_filter, s)]
    /\ ctl' = Append(ctl, "struct")
    /\ UNCHANGED << context, decl_log, ast >>

ModuleEnumDef(warning_filter, enum_) ==
    /\ ctl # << >> /\ Len(ctl) <= MaxDatatypes /\ Last(ctl) \in {"module", "struct", "enum"}
    /\ LET d == typing_enum_def(enum_)
       IN  /\ diags' = diags \o d
           /\ last' = Outcome("enum_def", "", Some(enum_), None, d, tcontext.warning_filter)
    /\ tcontext' = [tcontext EXCEPT !.warning_filter = enum_def_scopes(@, warning_filter, enum_)]
    /\ ctl' = Append(ctl, "enum")
    /\ UNCHANGED << context, decl_log, ast >>

(* module: after the members, the innermost scope is popped *)
TypingModuleExit ==
    /\ ctl # << >> /\ Last(ctl) # "done"
    /\ tcontext' = [tcontext EXCEPT !.warning_filter = pop_warning_filter_scope(@)]
    /\ ctl' = Append(ctl, "done")
    /\ last' = Outcome("module", "", None, None, << >>, tcontext.warning_filter)
    /\ UNCHANGED << context, diags, decl_log, ast >>

NextWarningFilters ==
    \/ \E f \in WarningFilters : TypingModuleEnter(f)
    \/ \E f \in WarningFilters, s \in ModuleStructs : ModuleStructDef(f, s)
    \/ \E f \in WarningFilters, e \in ModuleEnums : ModuleEnumDef(f, e)
    \/ TypingModuleExit

SpecWarningFilters == InitWarningFilters /\ [][NextWarningFilters]_vars

WarningFilterScopes == tcontext.warning_filter
ScopesBefore == last.saved
DefinitionChecked == last.op \in {"struct_def", "enum_def"}
NativeStruct == last.op = "struct_def" /\ last.name[1].fields = None

(* C27: type checking a struct or an enum definition leaves the warning-filter scope    *)
(* stack as deep as it was before the definition, for every shape of definition,        *)
(* native structs and enums with empty variants included.                               *)
C27_WarningFilterDepthRestored ==
    DefinitionChecked => Len(WarningFilterScopes) = Len(ScopesBefore)

(* the same for every definition but a native struct, which leaves its scope behind *)
C27_DepthRestoredUnlessNative ==
    DefinitionChecked =>
        IF NativeStruct
        THEN WarningFilterScopes = Append(ScopesBefore, Last(WarningFilterScopes))
        ELSE WarningFilterScopes = ScopesBefore

C27_Witness ==
    /\ NativeStruct
    /\ Len(WarningFilterScopes) = Len(ScopesBefore) + 1

(* ------------------------------------------------------------------------------------ *)
(* Typing: subtype and join of type applications with arguments                          *)
(* ------------------------------------------------------------------------------------ *)
PairOf(a, b) == NApply(ModuleType("m", "Pair"), << a, b >>)
PairArgs == { TU64, TBool, TVar(1), TVar(2) }
PairTypes == { PairOf(a, b) : a, b \in PairArgs } \cup { TU64, TVar(1) }
PairSubsts ==
    { [tvars |-> m, num_vars |-> {2}] : m \in { EmptyMap, [v \in {1} |-> TBool] } }

InitUnification ==
    /\ ctl = << >>
    /\ context = ContextNew
    /\ diags = << >>
    /\ decl_log = << >>
    /\ last = NoOutcome
    /\ \E subst \in PairSubsts : tcontext = [TContextNew EXCEPT !.subst = subst]
    /\ \/ \E el_ty \in PairTypes, rhs \in PairTypes :
             ast = Some([k |-> "Annotate", tys |-> << el_ty, rhs >>])
       \/ \E et_ty \in PairTypes, ef_ty \in PairTypes :
             ast = Some([k |-> "IfElse", tys |-> << TBool, et_ty, ef_ty >>])

SpecUnification == InitUnification /\ [][NextSubtyping]_vars

CheckReported == last.op \in {"subtype", "join"} /\ last.diag # << >>

(* C28: when a subtype or join check fails and is reported, the substitution after the  *)
(* call is the substitution from before the call; nothing that was unified during the   *)
(* failed attempt is kept.                                                              *)
C28_FailedCheckKeepsSubstitution ==
    CheckReported => tcontext.subst = SubstBefore

(* the first arguments unify by binding variable 1, the second arguments do not agree *)
C28_Witness ==
    /\ CheckReported
    /\ last.name[1] = << PairOf(TVar(1), TBool), PairOf(TU64, TU64) >>
    /\ SubstBefore.tvars = EmptyMap
    /\ core_unify(SubstBefore, FALSE, TVar(1), TU64).subst.tvars # EmptyMap
    /\ tcontext.subst.tvars = EmptyMap

(* ------------------------------------------------------------------------------------ *)
(* Naming: the types a module's names resolve to                                         *)
(* ------------------------------------------------------------------------------------ *)
(* BTreeMap::append: a key of other that is present in self takes the value of other *)
BTreeMapAppend(self, other) ==
    [k \in DOMAIN self \cup DOMAIN other |-> IF k \in DOMAIN other THEN other[k] ELSE self[k]]

(* Context::new, the members of one module: the structs, then the enums appended *)
module_members(mdef) ==
    LET smems == [s \in DOMAIN mdef.structs |-> RTModuleType("Struct", mdef.structs[s])]
        emems == [e \in DOMAIN mdef.enums |-> RTModuleType("Enum", mdef.enums[e])]
    IN  BTreeMapAppend(smems, emems)

Context_new(mdef) ==
    [ContextNew EXCEPT !.scoped_types = [m \in {"m"} |-> module_members(mdef)]]

InitMembers ==
    /\ ctl = << >>
    /\ diags = << >>
    /\ decl_log = << >>
    /\ last = NoOutcome
    /\ tcontext = TContextNew
    /\ \E estructs \in DatatypeMaps, eenums \in DatatypeMaps :
          /\ ast = Some(EModuleDefinition(estructs, eenums))
          /\ context = Context_new(EModuleDefinition(estructs, eenums))

(* a reference m::n met while the module is resolved *)
ModuleTypeReference(n) ==
    /\ last.op = "module"
    /\ LET r == resolve_module_type(context, "m", n)
       IN  /\ CanReport(r.diag)
           /\ diags' = diags \o r.diag
           /\ last' = Outcome("resolve_module_type", "", Some(n), r.ret, r.diag, last.ret[1])
    /\ UNCHANGED << ctl, context, decl_log, tcontext, ast >>

NextMembers ==
    \/ Module
    \/ \E n \in DatatypeNames : ModuleTypeReference(n)

SpecMembers == InitMembers /\ [][NextMembers]_vars

ReferenceResolved == last.op = "resolve_module_type"
ReferencedName == last.name[1]
ResolvedModule == last.saved
SharedNames == DOMAIN ast[1].structs \cap DOMAIN ast[1].enums

(* C29: when a module declares a struct and an enum with the same name, a reference to  *)
(* that name resolves to the declaration the resolved module keeps, the struct, never   *)
(* to the enum that was filtered out.                                                   *)
C29_SharedNameResolvesToKeptStruct ==
    (ReferenceResolved /\ ReferencedName \in SharedNames) =>
        /\ ReferencedName \in DOMAIN ResolvedModule.structs
        /\ last.ret = Some(RTModuleType("Struct", ast[1].structs[ReferencedName]))

(* what the references resolve to: the enum, which the resolved module does not have *)
C29_SharedNameResolvesToFilteredEnum ==
    (ReferenceResolved /\ ReferencedName \in SharedNames) =>
        /\ ReferencedName \notin DOMAIN ResolvedModule.enums
        /\ last.ret = Some(RTModuleType("Enum", ast[1].enums[ReferencedName]))

C29_Witness ==
    /\ ReferenceResolved /\ ReferencedName \in SharedNames
    /\ ast[1].structs[ReferencedName] # ast[1].enums[ReferencedName]
    /\ last.ret[1].module_type = "Enum"

(* ------------------------------------------------------------------------------------ *)
(* Naming: let with an initializer                                                       *)
(* ------------------------------------------------------------------------------------ *)
(* exp over an expression that reads the given names in turn, with what each resolves to *)
RECURSIVE exp_reads(_, _)
exp_reads(c, names) ==
    IF names = << >>
    THEN [ctx |-> c, vars |-> << >>, diag |-> << >>]
    ELSE LET r == resolve_local(c, Head(names))
             rest == exp_reads(r.ctx, Tail(names))
         IN  [ctx |-> rest.ctx, vars |-> << r.ret >> \o rest.vars, diag |-> r.diag \o rest.diag]

sequence_item_bind_declares_first(c, b, e) ==
    LET bind == bind_list(c, b)
        ne == exp_reads(bind.ctx, e)
    IN  [ctx |-> ne.ctx, bind |-> bind.vars, e |-> ne.vars, diag |-> ne.diag \o bind.diag]

(* sequence_item, Bind(b, e): exp(context, e), then bind_list(context, b) *)
sequence_item_bind(c, b, e) ==
    LET ne == exp_reads(c, e)
        bind == bind_list(ne.ctx, b)
    IN  [ctx |-> bind.ctx, bind |-> bind.vars, e |-> ne.vars, diag |-> ne.diag \o bind.diag]

InitializerReads == { << >>, << "x" >>, << "y" >>, << "x", "y" >> }

BindExp(b, e) ==
    /\ InBody /\ Last(ctl).kind \in {"sequence", "named_block"}
    /\ Len(decl_log) + Len(b) <= MaxDecls
    /\ LET r == sequence_item_bind(context, b, e)
       IN  /\ CanReport(r.diag)
           /\ context' = r.ctx
           /\ diags' = diags \o r.diag
           /\ decl_log' = LogDeclared(decl_log, r.bind, "Bind", Len(context.local_scopes))
           /\ last' = Outcome("sequence_item", "", Some([b |-> b, e |-> e]),
                              Some([bind |-> r.bind, e |-> r.e]), r.diag,
                              Last(context.local_scopes))
    /\ UNCHANGED << ctl, tcontext, ast >>

NextLet ==
    \/ \E params \in ParamLists : Function(params)
    \/ FunctionEnd
    \/ LocalsNest /\ BlockEnter
    \/ SequenceExit
    \/ \E b \in BindLists, e \in InitializerReads : BindExp(b, e)

SpecLet == InitNaming /\ [][NextLet]_vars

LetResolved == last.op = "sequence_item"
LetIn == last.name[1]
LetOut == last.ret[1]
ScopeBeforeLet == last.saved
BindingBefore(name) ==
    IF name \in DOMAIN ScopeBeforeLet THEN Some(Var(name, ScopeBeforeLet[name])) ELSE None

(* C30: in let x = e the initializer is resolved before x is declared: a use of x in e  *)
(* resolves to the binding of x in scope before the let, or is reported unbound when    *)
(* there was none, and never to the binding the let introduces.                         *)
C30_InitializerSeesBindingBeforeLet ==
    LetResolved =>
        \A i \in 1..Len(LetIn.e) :
            /\ LetOut.e[i] = BindingBefore(LetIn.e[i])
            /\ LetOut.e[i] = None =>
                  \E j \in 1..Len(last.diag) : last.diag[j].code = "NameResolution::UnboundVariable"
            /\ \A k \in 1..Len(LetOut.bind) : LetOut.e[i] # Some(LetOut.bind[k])

C30_Witness ==
    /\ LetResolved
    /\ LetIn.b = << "x" >> /\ LetIn.e = << "x" >>
    /\ LetOut.e = << Some(Var("x", 0)) >>
    /\ LetOut.bind = << Var("x", 1) >>
    /\ MapGet(Last(context.local_scopes), "x") = Some(1)

====
